---- MODULE Spec2Model ----
(***************************************************************************)
(* A model of src/src/lib/imageProcessing.ts: the pixel-buffer transforms  *)
(* (grayscale, noise, spatial filters, histogram and tone mapping, 2-D FFT *)
(* and frequency masking) applied by a caller to decoded images.           *)
(*                                                                         *)
(* Storage is explicit.  `heap` is the sequence of typed arrays allocated  *)
(* so far (a Uint8ClampedArray or a Float64Array is a sequence of numbers);*)
(* an ImageData is a record [width, height, data] whose data is an address *)
(* into heap, an FFTResult is a record whose re and im are sequences of    *)
(* row addresses.  Every function of the library is an operator taking the *)
(* heap and its arguments and returning [heap |-> the heap after the call, *)
(* ret |-> the returned object], so that writing through an alias shows.   *)
(*                                                                         *)
(* Numbers.  Samples are integers 0..255.  A Float64 of a spectrum is held *)
(* as an integer count of 1/Scale units; for padded sizes up to 4 the      *)
(* twiddle factors are 1, -1, i, -i and the transform is exact in these    *)
(* units (the 1e-16 rounding residue of Math.cos/Math.sin is dropped).     *)
(***************************************************************************)
EXTENDS Integers, Sequences, FiniteSets, TLC

VARIABLES
  heap,     \* the typed arrays allocated so far, by address 1..Len(heap)
  img,      \* the ImageData the caller holds (the input of the calls)
  fft,      \* the FFTResult the caller holds, or NULL
  fft2,     \* a second FFTResult (hybrid image), or NULL
  call,     \* the last library call: [op, ...parameters], or NoCall
  ret,      \* what the last call returned, or NULL
  outcome,  \* "none", "returned" or "threw"
  pc,       \* where the caller is in its pipeline
  ui,       \* the React state of the mounted tab component, [tab |-> "none"] if none
  loads,    \* the uploads so far, each loading, done or failed
  timers,   \* the setTimeout callbacks scheduled and not yet run, oldest first
  clicks    \* how many times Apply Filter / Mix Images took effect

vars == <<heap, img, fft, fft2, call, ret, outcome, pc, ui, loads, timers, clicks>>

NULL == [null |-> TRUE]
NoCall == [op |-> "none"]
NoTab == [tab |-> "none"]

----------------------------------------------------------------------------
(* Bounds of the model *)

MaxW == 3
MaxH == 3
MaxKernel == 3
MaxRadius == 2

----------------------------------------------------------------------------
(* Small arithmetic helpers *)

Abs(x) == IF x < 0 THEN -x ELSE x
Min(a, b) == IF a < b THEN a ELSE b
Max(a, b) == IF a > b THEN a ELSE b

\* Math.round of the non-negative rational num/den (den > 0): half rounds up.
RoundDiv(num, den) == (2 * num + den) \div (2 * den)

\* Math.max(0, Math.min(255, v)) on an integer
Clamp255(v) == Max(0, Min(255, v))

\* typed-array read with the code's 0-based index
At(a, i) == a[i + 1]

\* The function f as a table of its values: a function expression is
\* evaluated again at every application unless it has been compared once.
Eval(f) == IF f = f THEN f ELSE f

----------------------------------------------------------------------------
(* Image Data Helpers *)

\* new ImageData(new Uint8ClampedArray(img.data), img.width, img.height):
\* a fresh array holding a copy of the samples.
\* a clone that shares the input's Uint8ClampedArray instead of copying it
cloneImageDataShared(h, im) == [heap |-> h, ret |-> im]

cloneImageData(h, im) ==
  [heap |-> Append(h, h[im.data]),
   ret  |-> [width |-> im.width, height |-> im.height, data |-> Len(h) + 1]]

\* Math.round(0.299 r + 0.587 g + 0.114 b).  The integer form agrees with the
\* double computation except on some exact ties (299r + 587g + 114b = 500
\* mod 1000), which no palette colour and no gray pixel produces.
Luma(r, g, b) == (299 * r + 587 * g + 114 * b + 500) \div 1000

\* the pixel (4 samples) holding 1-based sample index i starts at PixBase(i)
PixBase(i) == i - ((i - 1) % 4)
Chan(i) == (i - 1) % 4

isGrayscale(h, im) ==
  \A p \in 0..((Len(h[im.data]) \div 4) - 1) :
     LET d == h[im.data] IN
       At(d, 4 * p) = At(d, 4 * p + 1) /\ At(d, 4 * p + 1) = At(d, 4 * p + 2)

----------------------------------------------------------------------------
(* Conversion *)

\* a loop that assigns g to red and green and leaves blue as it was
GrayDataKeepsBlue(d) ==
  [i \in 1..Len(d) |->
     IF Chan(i) >= 2 THEN d[i]
     ELSE LET b == PixBase(i) IN Luma(d[b], d[b + 1], d[b + 2])]

\* the loop of toGrayscale over the samples d of `out`
GrayData(d) ==
  Eval([i \in 1..Len(d) |->
     IF Chan(i) = 3 THEN d[i]
     ELSE LET b == PixBase(i) IN Luma(d[b], d[b + 1], d[b + 2])])

toGrayscale(h, im) ==
  LET c == cloneImageData(h, im)
      out == c.ret
  IN [heap |-> [c.heap EXCEPT ![out.data] = GrayData(@)], ret |-> out]

----------------------------------------------------------------------------
(* Noise *)

\* Math.random() returns k / RandDen for an integer 0 <= k < RandDen; the
\* resolution is that of the code's thresholds percentage / 100 / 2.
RandDen == 100 * 2

\* The store of the non-integer num/den (den > 0) into a Uint8ClampedArray:
\* clamped to 0..255 and rounded to nearest, a tie going to the even integer.
ToUint8Clamp(num, den) ==
  IF num <= 0 THEN 0
  ELSE IF num >= 255 * den THEN 255
  ELSE LET q == num \div den
           r == num % den
       IN IF 2 * r < den THEN q
          ELSE IF 2 * r > den THEN q + 1
          ELSE IF q % 2 = 0 THEN q ELSE q + 1

\* out.data[i+c] + (Math.random() - 0.5) * 2 * amount, amount = percentage/100*255,
\* as a fraction over RandDen * 100
UniformData(d, percentage, draws) ==
  Eval([i \in 1..Len(d) |->
     IF Chan(i) = 3 THEN d[i]
     ELSE LET k == draws[3 * ((i - 1) \div 4) + Chan(i)]
          IN ToUint8Clamp(d[i] * RandDen * 100 + (2 * k - RandDen) * percentage * 255,
                          RandDen * 100)])

addUniformNoise(h, im, percentage, draws) ==
  LET c == cloneImageData(h, im)
      out == c.ret
  IN [heap |-> [c.heap EXCEPT ![out.data] = UniformData(@, percentage, draws)],
      ret |-> out]

\* randGaussian() returns a real number; a draw z stands for z / 1000.
\* Math.round(v + z * sigma) with sigma = percentage / 100 * 80, then the clamp.
GaussianData(d, percentage, draws) ==
  Eval([i \in 1..Len(d) |->
     IF Chan(i) = 3 THEN d[i]
     ELSE LET z == draws[3 * ((i - 1) \div 4) + Chan(i)]
              num == d[i] * 100000 + z * percentage * 80
          IN Clamp255((2 * num + 100000) \div 200000)])

addGaussianNoise(h, im, percentage, draws) ==
  LET c == cloneImageData(h, im)
      out == c.ret
  IN [heap |-> [c.heap EXCEPT ![out.data] = GaussianData(@, percentage, draws)],
      ret |-> out]

\* a decision per channel: channel c of pixel p decides by the draw of pixel
\* p + c (wrapping round), so the three channels of a pixel can differ
SaltPepperDataPerChannel(d, percentage, draws) ==
  [i \in 1..Len(d) |->
     IF Chan(i) = 3 THEN d[i]
     ELSE LET k == draws[(((i - 1) \div 4) + Chan(i)) % (Len(d) \div 4)]
          IN IF k * 100 * 2 < percentage * RandDen THEN 0
             ELSE IF k * 100 < percentage * RandDen THEN 255
             ELSE d[i]]

\* one draw r per pixel: r < prob / 2 gives pepper, else r < prob gives salt,
\* with prob = percentage / 100 and r = k / RandDen
SaltPepperData(d, percentage, draws) ==
  Eval([i \in 1..Len(d) |->
     IF Chan(i) = 3 THEN d[i]
     ELSE LET k == draws[(i - 1) \div 4]
          IN IF k * 100 * 2 < percentage * RandDen THEN 0
             ELSE IF k * 100 < percentage * RandDen THEN 255
             ELSE d[i]])

addSaltPepperNoise(h, im, percentage, draws) ==
  LET c == cloneImageData(h, im)
      out == c.ret
  IN [heap |-> [c.heap EXCEPT ![out.data] = SaltPepperData(@, percentage, draws)],
      ret |-> out]

----------------------------------------------------------------------------
(* Spatial Filters *)

\* the sum of all weights of a kernel (a sequence of rows)
RECURSIVE RowSum(_, _)
RowSum(row, n) == IF n = 0 THEN 0 ELSE row[n] + RowSum(row, n - 1)
RECURSIVE KernelSum(_, _)
KernelSum(kernel, n) ==
  IF n = 0 THEN 0 ELSE RowSum(kernel[n], Len(kernel[n])) + KernelSum(kernel, n - 1)

\* sums[c] with neighbours outside the image read as 0 instead of clamped
RECURSIVE ConvSumZeroPadded(_, _, _, _, _, _, _, _)
ConvSumZeroPadded(src, w, h, kernel, x, y, c, n) ==
  IF n = 0 THEN 0
  ELSE LET kw == Len(kernel[1])
           ky == (n - 1) \div kw
           kx == (n - 1) % kw
           px == x + kx - (kw \div 2)
           py == y + ky - (Len(kernel) \div 2)
       IN (IF px \in 0..(w - 1) /\ py \in 0..(h - 1)
             THEN At(src, (py * w + px) * 4 + c) * kernel[ky + 1][kx + 1]
             ELSE 0)
            + ConvSumZeroPadded(src, w, h, kernel, x, y, c, n - 1)

\* sums[c] of convolve at (x, y): the weighted sum over the kernel cells
\* 0..n-1 (cell = ky * kw + kx) of the edge-clamped neighbours read from src
RECURSIVE ConvSum(_, _, _, _, _, _, _, _)
ConvSum(src, w, h, kernel, x, y, c, n) ==
  IF n = 0 THEN 0
  ELSE LET kh == Len(kernel)
           kw == Len(kernel[1])
           hh == kh \div 2
           hw == kw \div 2
           ky == (n - 1) \div kw
           kx == (n - 1) % kw
           px == Min(w - 1, Max(0, x + kx - hw))
           py == Min(h - 1, Max(0, y + ky - hh))
           idx == (py * w + px) * 4
       IN At(src, idx + c) * kernel[ky + 1][kx + 1]
            + ConvSum(src, w, h, kernel, x, y, c, n - 1)

\* a loop over all four samples of a pixel (c < 4), so that alpha is filtered too
ConvDataWithAlpha(src, out, w, h, kernel, normalize) ==
  LET total == IF normalize THEN KernelSum(kernel, Len(kernel)) ELSE 0
      ksum == IF total = 0 THEN 1 ELSE total
      cells == Len(kernel) * Len(kernel[1])
  IN [i \in 1..Len(out) |->
        LET p == (i - 1) \div 4
            s == ConvSum(src, w, h, kernel, p % w, p \div w, Chan(i), cells)
        IN Clamp255(IF normalize THEN (2 * s + ksum) \div (2 * ksum) ELSE s)]

\* the samples of `out` after the loops of convolve, reading img.data = src
ConvData(src, out, w, h, kernel, normalize) ==
  LET total == IF normalize THEN KernelSum(kernel, Len(kernel)) ELSE 0
      ksum == IF total = 0 THEN 1 ELSE total
      cells == Len(kernel) * Len(kernel[1])
  IN Eval([i \in 1..Len(out) |->
        IF Chan(i) = 3 THEN out[i]
        ELSE LET p == (i - 1) \div 4
                 s == ConvSum(src, w, h, kernel, p % w, p \div w, Chan(i), cells)
             IN Clamp255(IF normalize THEN (2 * s + ksum) \div (2 * ksum) ELSE s)])

convolve(h, im, kernel, normalize) ==
  LET c == cloneImageData(h, im)
      out == c.ret
  IN [heap |-> [c.heap EXCEPT ![out.data] =
                   ConvData(c.heap[im.data], @, im.width, im.height, kernel, normalize)],
      ret |-> out]

averageFilter(h, im, size) ==
  convolve(h, im, Eval([ky \in 1..size |-> [kx \in 1..size |-> 1]]), TRUE)

\* Math.exp(-(x*x + y*y) / (2 * sigma * sigma)) with sigma = size / 6, in
\* millionths (the normalised sum is rounded to a sample, so the seventh
\* decimal of a weight does not reach the output)
GaussWeight(size, r2) ==
  IF r2 = 0 THEN 1000000
  ELSE CASE size = 1 -> 0
         [] size = 2 -> (CASE r2 = 1 -> 11109 [] r2 = 2 -> 123 [] OTHER -> 0)
         [] size = 3 -> (CASE r2 = 1 -> 135335 [] r2 = 2 -> 18316 [] OTHER -> 0)
         [] OTHER -> (CASE r2 = 1 -> 324652 [] r2 = 2 -> 105399 [] r2 = 4 -> 11109
                        [] r2 = 5 -> 3607 [] r2 = 8 -> 123 [] OTHER -> 0)

gaussianFilter(h, im, size) ==
  LET half == size \div 2
      n == 2 * half + 1
      kernel == Eval([r \in 1..n |-> [q \in 1..n |->
                   GaussWeight(size, (q - 1 - half) * (q - 1 - half)
                                     + (r - 1 - half) * (r - 1 - half))]])
  IN convolve(h, im, kernel, TRUE)

\* channels[c].sort((a, b) => a - b): insertion into an ascending sequence
RECURSIVE InsertAsc(_, _)
InsertAsc(s, v) ==
  IF s = << >> THEN << v >>
  ELSE IF v <= Head(s) THEN << v >> \o s
  ELSE << Head(s) >> \o InsertAsc(Tail(s), v)

\* the sorted neighbourhood of (x, y) in channel c: cells 0..n-1 of the
\* (2 half + 1)-wide window, edge-clamped
RECURSIVE SortedWindow(_, _, _, _, _, _, _, _)
SortedWindow(src, w, h, half, x, y, c, n) ==
  IF n = 0 THEN << >>
  ELSE LET side == 2 * half + 1
           ky == ((n - 1) \div side) - half
           kx == ((n - 1) % side) - half
           px == Min(w - 1, Max(0, x + kx))
           py == Min(h - 1, Max(0, y + ky))
           idx == (py * w + px) * 4
       IN InsertAsc(SortedWindow(src, w, h, half, x, y, c, n - 1), At(src, idx + c))

MedianData(src, out, w, h, size) ==
  LET half == size \div 2
      cells == (2 * half + 1) * (2 * half + 1)
  IN Eval([i \in 1..Len(out) |->
        IF Chan(i) = 3 THEN out[i]
        ELSE LET p == (i - 1) \div 4
                 sorted == SortedWindow(src, w, h, half, p % w, p \div w, Chan(i), cells)
             IN At(sorted, Len(sorted) \div 2)])

medianFilter(h, im, size) ==
  LET c == cloneImageData(h, im)
      out == c.ret
  IN [heap |-> [c.heap EXCEPT ![out.data] =
                   MedianData(c.heap[im.data], @, im.width, im.height, size)],
      ret |-> out]

\* the largest m in lo..hi with m * m <= n (lo * lo <= n < (hi + 1) * (hi + 1))
RECURSIVE ISqrtIn(_, _, _)
ISqrtIn(n, lo, hi) ==
  IF lo = hi THEN lo
  ELSE LET mid == (lo + hi + 1) \div 2
       IN IF mid * mid <= n THEN ISqrtIn(n, mid, hi) ELSE ISqrtIn(n, lo, mid - 1)

\* Math.min(255, Math.sqrt(n)) stored into a Uint8ClampedArray: the nearest
\* integer to the root (the root of an integer is never at a tie), at most 255
MagSample(n) ==
  IF n >= 255 * 255 THEN 255
  ELSE LET m == ISqrtIn(n, 0, 255) IN IF n - m * m > m THEN m + 1 ELSE m

SobelKx == << <<-1, 0, 1>>, <<-2, 0, 2>>, <<-1, 0, 1>> >>
SobelKy == << <<-1, -2, -1>>, <<0, 0, 0>>, <<1, 2, 1>> >>
PrewittKx == << <<-1, 0, 1>>, <<-1, 0, 1>>, <<-1, 0, 1>> >>
PrewittKy == << <<-1, -1, -1>>, <<0, 0, 0>>, <<1, 1, 1>> >>

\* the loop shared by sobelFilter and prewittFilter: the magnitude of the red
\* samples of gx and gy into R, G, B of out
GradientData(gxd, gyd, out) ==
  Eval([i \in 1..Len(out) |->
     IF Chan(i) = 3 THEN out[i]
     ELSE LET b == PixBase(i) IN MagSample(gxd[b] * gxd[b] + gyd[b] * gyd[b])])

\* gray, gx, gy and out of sobelFilter / prewittFilter, for the kernels kx, ky
GradientFilter(h, im, kx, ky) ==
  LET Out(gx, gy, c) ==
        [heap |-> [c.heap EXCEPT ![c.ret.data] =
                     GradientData(c.heap[gx.data], c.heap[gy.data], @)],
         ret |-> c.ret]
      WithGy(gx, gy) == Out(gx.ret, gy.ret, cloneImageData(gy.heap, im))
      WithGx(gray, gx) == WithGy(gx, convolve(gx.heap, gray.ret, ky, FALSE))
      WithGray(gray) == WithGx(gray, convolve(gray.heap, gray.ret, kx, FALSE))
  IN WithGray(toGrayscale(h, im))

sobelFilter(h, im) == GradientFilter(h, im, SobelKx, SobelKy)

prewittFilter(h, im) == GradientFilter(h, im, PrewittKx, PrewittKy)

\* the loops of robertsFilter: y < height - 1 and x < width - 1 only
RobertsData(gray, out, w, h) ==
  Eval([i \in 1..Len(out) |->
     LET p == (i - 1) \div 4
         x == p % w
         y == p \div w
     IN IF Chan(i) = 3 \/ x >= w - 1 \/ y >= h - 1 THEN out[i]
        ELSE LET i00 == (y * w + x) * 4
                 i01 == (y * w + x + 1) * 4
                 i10 == ((y + 1) * w + x) * 4
                 i11 == ((y + 1) * w + x + 1) * 4
                 gx == At(gray, i00) - At(gray, i11)
                 gy == At(gray, i01) - At(gray, i10)
             IN MagSample(gx * gx + gy * gy)])

robertsFilter(h, im) ==
  LET gray == toGrayscale(h, im)
      c == cloneImageData(gray.heap, im)
      out == c.ret
  IN [heap |-> [c.heap EXCEPT ![out.data] =
                   RobertsData(c.heap[gray.ret.data], @, im.width, im.height)],
      ret |-> out]

\* The direction bin of non-max suppression for the gradient (mx, my):
\* angle = (atan2(my, mx) * 180 / PI + 180) % 180 against 22.5, 67.5, 112.5,
\* 157.5, decided exactly: tan 22.5 = sqrt 2 - 1, so the angle is within 22.5
\* of the x axis iff (|mx| + |my|)^2 < 2 mx^2 (atan2(0, 0) = 0 is bin 0).
DirectionBin(mx, my) ==
  LET sq == (Abs(mx) + Abs(my)) * (Abs(mx) + Abs(my))
  IN IF (mx = 0 /\ my = 0) \/ sq < 2 * mx * mx THEN 0
     ELSE IF sq < 2 * my * my THEN 90
     ELSE IF (mx > 0) = (my > 0) THEN 45
     ELSE 135

\* The stages of cannyEdgeDetector after gx and gy.  Magnitudes are compared
\* through their squares: m2[p] = mx^2 + my^2 with mx = gx - 128, my = gy - 128;
\* s >= maxMag * 0.15 is 400 s^2 >= 9 maxMag^2 and s >= maxMag * 0.15 * 0.4 is
\* 2500 s^2 >= 9 maxMag^2.
CannyData(gxd, gyd, out, w, h) ==
  LET m2 == Eval([p \in 0..(w * h - 1) |->
               (At(gxd, 4 * p) - 128) * (At(gxd, 4 * p) - 128)
                 + (At(gyd, 4 * p) - 128) * (At(gyd, 4 * p) - 128)])
      RECURSIVE MaxTo(_)
      MaxTo(n) == IF n < 0 THEN 0 ELSE Max(m2[n], MaxTo(n - 1))
      maxMag2 == MaxTo(w * h - 1)
      suppressed2 ==
        Eval([p \in 0..(w * h - 1) |->
           LET x == p % w
               y == p \div w
           IN IF x < 1 \/ x >= w - 1 \/ y < 1 \/ y >= h - 1 THEN 0
              ELSE LET bin == DirectionBin(At(gxd, 4 * p) - 128, At(gyd, 4 * p) - 128)
                       n1 == CASE bin = 0 -> m2[p - 1]
                               [] bin = 45 -> m2[(y - 1) * w + x + 1]
                               [] bin = 90 -> m2[(y - 1) * w + x]
                               [] OTHER -> m2[(y - 1) * w + x - 1]
                       n2 == CASE bin = 0 -> m2[p + 1]
                               [] bin = 45 -> m2[(y + 1) * w + x - 1]
                               [] bin = 90 -> m2[(y + 1) * w + x]
                               [] OTHER -> m2[(y + 1) * w + x + 1]
                   IN IF m2[p] >= n1 /\ m2[p] >= n2 THEN m2[p] ELSE 0])
  IN Eval([i \in 1..Len(out) |->
        IF Chan(i) = 3 THEN 255
        ELSE LET s2 == suppressed2[(i - 1) \div 4]
             IN IF 400 * s2 >= 9 * maxMag2 THEN 255
                ELSE IF 2500 * s2 >= 9 * maxMag2 THEN 128
                ELSE 0])

cannyEdgeDetector(h, im, kernelSize) ==
  LET Out(gx, gy, c) ==
        [heap |-> [c.heap EXCEPT ![c.ret.data] =
                     CannyData(c.heap[gx.data], c.heap[gy.data], @,
                               im.width, im.height)],
         ret |-> c.ret]
      WithGy(gx, gy) == Out(gx.ret, gy.ret, cloneImageData(gy.heap, im))
      WithGx(blurred, gx) == WithGy(gx, convolve(gx.heap, blurred.ret, SobelKy, FALSE))
      WithBlurred(blurred) ==
        WithGx(blurred, convolve(blurred.heap, blurred.ret, SobelKx, FALSE))
      WithGray(gray) == WithBlurred(gaussianFilter(gray.heap, gray.ret, kernelSize))
  IN WithGray(toGrayscale(h, im))

----------------------------------------------------------------------------
(* Histogram *)

\* a count that stops one pixel short of the end of the data
CountFromButLast(d, first, v) ==
  Cardinality({p \in 0..((Len(d) \div 4) - 2) : d[4 * p + first] = v})

\* hist[v] after `for (i = c; i < data.length; i += 4) hist[data[i]]++`, with
\* first = c + 1: how many pixels have the value v in that channel
CountFrom(d, first, v) ==
  Cardinality({p \in 0..((Len(d) \div 4) - 1) : d[4 * p + first] = v})

\* how many pixels have the rounded luminance v
CountLuma(d, v) ==
  Cardinality({p \in 0..((Len(d) \div 4) - 1) :
                 Luma(d[4 * p + 1], d[4 * p + 2], d[4 * p + 3]) = v})

computeHistogram(h, im) ==
  LET d == h[im.data]
  IN [heap |-> h,
      ret |-> [r |-> Eval([v \in 0..255 |-> CountFrom(d, 1, v)]),
               g |-> Eval([v \in 0..255 |-> CountFrom(d, 2, v)]),
               b |-> Eval([v \in 0..255 |-> CountFrom(d, 3, v)]),
               gray |-> Eval([v \in 0..255 |-> CountLuma(d, v)]),
               isGray |-> \A p \in 0..((Len(d) \div 4) - 1) :
                             At(d, 4 * p) = At(d, 4 * p + 1)
                               /\ At(d, 4 * p + 1) = At(d, 4 * p + 2)]]

\* min and max of the samples d[first], d[first + 4], ...
\* (min starts at 255 and max at 0, which they keep when there is no sample)
SamplesFrom(d, first) == {d[i] : i \in {j \in first..Len(d) : (j - first) % 4 = 0}}
MinFrom(d, first) ==
  LET S == SamplesFrom(d, first) \cup {255} IN CHOOSE m \in S : \A n \in S : m <= n
MaxFrom(d, first) ==
  LET S == SamplesFrom(d, first) \cup {0} IN CHOOSE m \in S : \A n \in S : m >= n

\* a range one too wide: max - min + 1 in place of max - min || 1
NormalizeDataWideRange(d) ==
  LET lo == Eval([c \in 0..2 |-> MinFrom(d, c + 1)])
      hi == Eval([c \in 0..2 |-> MaxFrom(d, c + 1)])
  IN [i \in 1..Len(d) |->
        IF Chan(i) = 3 THEN d[i]
        ELSE RoundDiv((d[i] - lo[Chan(i)]) * 255, hi[Chan(i)] - lo[Chan(i)] + 1)]

NormalizeData(d) ==
  LET lo == Eval([c \in 0..2 |-> MinFrom(d, c + 1)])
      hi == Eval([c \in 0..2 |-> MaxFrom(d, c + 1)])
      range == Eval([c \in 0..2 |-> IF hi[c] - lo[c] = 0 THEN 1 ELSE hi[c] - lo[c]])
  IN Eval([i \in 1..Len(d) |->
        IF Chan(i) = 3 THEN d[i]
        ELSE RoundDiv((d[i] - lo[Chan(i)]) * 255, range[Chan(i)])])

normalizeImage(h, im) ==
  LET c == cloneImageData(h, im)
      out == c.ret
  IN [heap |-> [c.heap EXCEPT ![out.data] = NormalizeData(@)], ret |-> out]

\* Math.round(((cdf[s] - cdfMin) / (totalPixels - cdfMin)) * 255) stored into
\* the Uint8ClampedArray.  With a zero denominator the quotient is 0/0 = NaN
\* (stored as 0) or x/0 = Infinity (stored as 255).
EqualizeSample(cdfv, cdfMin, totalPixels) ==
  IF totalPixels - cdfMin = 0
    THEN (IF cdfv - cdfMin > 0 THEN 255 ELSE 0)
    ELSE Clamp255(RoundDiv((cdfv - cdfMin) * 255, totalPixels - cdfMin))

\* the terms f[lo], ..., f[hi] themselves, never accumulated
TermsNotSummed(f, lo, hi, base) == [i \in 1..(hi - lo + 1) |-> f[lo + i - 1]]

\* the running sums base + f[lo], base + f[lo] + f[lo + 1], ... up to f[hi],
\* as a sequence (the loop cdf[i] = cdf[i - 1] + hist[i], split in halves)
RECURSIVE RunningSums(_, _, _, _)
RunningSums(f, lo, hi, base) ==
  IF lo = hi THEN << base + f[lo] >>
  ELSE LET mid == (lo + hi) \div 2
           left == RunningSums(f, lo, mid, base)
       IN left \o RunningSums(f, mid + 1, hi, left[Len(left)])

EqualizeData(d, totalPixels) ==
  LET hist == Eval([c \in 0..2 |-> [v \in 0..255 |-> CountFrom(d, c + 1, v)]])
      \* cdf[0] = hist[0]; cdf[i] = cdf[i - 1] + hist[i]  (cdf[c][v + 1] here)
      cdf == Eval([c \in 0..2 |-> RunningSums(hist[c], 0, 255, 0)])
      \* cdf.find(v => v > 0) || 0
      cdfMin == Eval([c \in 0..2 |->
                   IF \E v \in 0..255 : At(cdf[c], v) > 0
                     THEN At(cdf[c], CHOOSE v \in 0..255 :
                                       At(cdf[c], v) > 0
                                         /\ \A u \in 0..(v - 1) : At(cdf[c], u) = 0)
                     ELSE 0])
  IN Eval([i \in 1..Len(d) |->
        IF Chan(i) = 3 THEN d[i]
        ELSE EqualizeSample(At(cdf[Chan(i)], d[i]), cdfMin[Chan(i)], totalPixels)])

equalizeImage(h, im) ==
  LET c == cloneImageData(h, im)
      out == c.ret
  IN [heap |-> [c.heap EXCEPT ![out.data] = EqualizeData(@, im.width * im.height)],
      ret |-> out]

----------------------------------------------------------------------------
(* FFT (2D) *)

\* `while (p <= n)`: a size that is a power of two already is doubled
RECURSIVE nextPow2FromInclusive(_, _)
nextPow2FromInclusive(p, n) == IF p <= n THEN nextPow2FromInclusive(2 * p, n) ELSE p

RECURSIVE nextPow2From(_, _)
nextPow2From(p, n) == IF p < n THEN nextPow2From(2 * p, n) ELSE p

nextPow2(n) == nextPow2From(1, n)

\* A Float64 of a spectrum is an integer count of 1/Scale: the two 1/n
\* scalings of the inverse transform divide by at most Scale in all.
Scale == nextPow2(MaxW) * nextPow2(MaxH)

\* the index j reaches in the bit-reversal loop when the counter is i
RECURSIVE BitReverse(_, _)
BitReverse(i, n) ==
  IF n <= 1 THEN 0 ELSE (i % 2) * (n \div 2) + BitReverse(i \div 2, n \div 2)

\* twiddles that ignore `invert`: the inverse transform run with the forward angle
TwiddleForward(len, invert) ==
  CASE len = 2 -> <<-1, 0>>
    [] len = 4 -> <<0, 1>>
    [] OTHER -> <<1, 0>>

\* (Math.cos(angle), Math.sin(angle)) for angle = 2 PI / len, negated when
\* inverting.  Lengths 2 and 4 give -1 and +-i; longer transforms have
\* irrational twiddles and lie outside the model.
Twiddle(len, invert) ==
  CASE len = 2 -> <<-1, 0>>
    [] len = 4 -> <<0, IF invert THEN -1 ELSE 1>>
    [] OTHER -> <<1, 0>>

\* (curRe, curIm) after j turns of the inner loop
RECURSIVE Cur(_, _, _)
Cur(len, invert, j) ==
  IF j = 0 THEN <<1, 0>>
  ELSE LET c == Cur(len, invert, j - 1)
           w == Twiddle(len, invert)
       IN <<c[1] * w[1] - c[2] * w[2], c[1] * w[2] + c[2] * w[1]>>

\* one pass `for (i = 0; i < n; i += len)` of butterflies over a = [re, im]
Butterflies(a, len, invert) ==
  LET half == len \div 2
      V(k, j) == LET c == Cur(len, invert, j)
                 IN <<At(a.re, k) * c[1] - At(a.im, k) * c[2],
                      At(a.re, k) * c[2] + At(a.im, k) * c[1]>>
  IN [re |-> Eval([i \in 1..Len(a.re) |->
                LET k == i - 1
                    pos == k % len
                IN IF pos < half THEN At(a.re, k) + V(k + half, pos)[1]
                   ELSE At(a.re, k - half) - V(k, pos - half)[1]]),
      im |-> Eval([i \in 1..Len(a.im) |->
                LET k == i - 1
                    pos == k % len
                IN IF pos < half THEN At(a.im, k) + V(k + half, pos)[2]
                   ELSE At(a.im, k - half) - V(k, pos - half)[2]])]

RECURSIVE Passes(_, _, _)
Passes(a, len, invert) ==
  IF len > Len(a.re) THEN a ELSE Passes(Butterflies(a, len, invert), 2 * len, invert)

\* fft1d on the arrays a = [re, im], giving their contents after the call
fft1d(a, invert) ==
  LET n == Len(a.re)
      \* if (invert) for (i = 0; i < n; i++) { re[i] /= n; im[i] /= n; }
      Scaled(done) ==
        IF invert
          THEN [re |-> Eval([i \in 1..n |-> done.re[i] \div n]),
                im |-> Eval([i \in 1..n |-> done.im[i] \div n])]
          ELSE done
  IN IF n <= 1 THEN a
     ELSE Scaled(Passes([re |-> Eval([i \in 1..n |-> At(a.re, BitReverse(i - 1, n))]),
                         im |-> Eval([i \in 1..n |-> At(a.im, BitReverse(i - 1, n))])],
                        2, invert))

\* fft1d over every row of the planes m = [re, im] (sequences of rows)
FftRows(m, invert) ==
  LET Split(rows) == [re |-> Eval([y \in 1..Len(rows) |-> rows[y].re]),
                      im |-> Eval([y \in 1..Len(rows) |-> rows[y].im])]
  IN Split(Eval([y \in 1..Len(m.re) |->
                   fft1d([re |-> m.re[y], im |-> m.im[y]], invert)]))

\* fft1d over every column: colRe / colIm gathered, transformed, written back
FftCols(m, w, invert) ==
  LET hh == Len(m.re)
      WriteBack(col) == [re |-> Eval([y \in 1..hh |-> [x \in 1..w |-> col[x].re[y]]]),
                         im |-> Eval([y \in 1..hh |-> [x \in 1..w |-> col[x].im[y]]])]
  IN WriteBack(Eval([x \in 1..w |-> fft1d([re |-> [y \in 1..hh |-> m.re[y][x]],
                                           im |-> [y \in 1..hh |-> m.im[y][x]]],
                                          invert)]))

\* the heap with the arrays at the addresses rows[y] holding the rows of plane
StoreRows(h, rows, plane) ==
  Eval([a \in 1..Len(h) |->
     IF \E y \in 1..Len(rows) : rows[y] = a
       THEN plane[CHOOSE y \in 1..Len(rows) : rows[y] = a]
       ELSE h[a]])

\* what the row arrays of a spectrum hold
Planes(h, f) ==
  [re |-> Eval([y \in 1..Len(f.re) |-> h[f.re[y]]]),
   im |-> Eval([y \in 1..Len(f.im) |-> h[f.im[y]]])]

\* no sign flip: the samples are transformed as they are
ShiftSignNone(x, y) == 1

\* ((x + y) % 2 === 0) ? 1 : -1, the checkerboard sign of the sample at (x, y)
ShiftSign(x, y) == IF (x + y) % 2 = 0 THEN 1 ELSE -1

fft2d(h, im) ==
  LET w == nextPow2(im.width)
      hh == nextPow2(im.height)
      \* re[y][x] = gray.data[...] * ((x + y) % 2 === 0 ? 1 : -1), zero padded
      init(g) == [re |-> Eval([y \in 1..hh |-> [x \in 1..w |->
                         IF y - 1 < im.height /\ x - 1 < im.width
                           THEN At(g, ((y - 1) * im.width + (x - 1)) * 4)
                                  * ShiftSign(x - 1, y - 1) * Scale
                           ELSE 0]]),
                  im |-> Eval([y \in 1..hh |-> [x \in 1..w |-> 0]])]
      \* re.push(new Float64Array(w)); im.push(new Float64Array(w)) per row,
      \* holding `out` once the row and column transforms are done
      Result(gh, out) ==
        [heap |-> gh \o Eval([k \in 1..(2 * hh) |->
                              IF k % 2 = 1 THEN out.re[(k + 1) \div 2]
                              ELSE out.im[k \div 2]]),
         ret |-> [re |-> Eval([y \in 1..hh |-> Len(gh) + 2 * y - 1]),
                  im |-> Eval([y \in 1..hh |-> Len(gh) + 2 * y]),
                  width |-> w, height |-> hh,
                  originalWidth |-> im.width, originalHeight |-> im.height]]
      Transform(gray) ==
        Result(gray.heap,
               FftCols(FftRows(init(gray.heap[gray.ret.data]), FALSE), w, FALSE))
  IN Transform(toGrayscale(h, im))

\* rows.map(r => new Float64Array(r)): a fresh copy of every row
CopyRows(h, rows) ==
  [heap |-> h \o Eval([y \in 1..Len(rows) |-> h[rows[y]]]),
   ret |-> Eval([y \in 1..Len(rows) |-> Len(h) + y])]

ifft2d(h, f) ==
  LET w == f.width
      ow == f.originalWidth
      oh == f.originalHeight
      \* Math.max(0, Math.min(255, Math.round(Math.abs(re[y][x])))) into a new
      \* ImageData, h1 being the heap once the copies hold the inverse transform
      Image(h1, re) ==
        [heap |-> Append(h1, Eval([i \in 1..(4 * ow * oh) |->
                    IF Chan(i) = 3 THEN 255
                    ELSE LET p == (i - 1) \div 4
                         IN Clamp255(RoundDiv(Abs(At(h1[re[(p \div ow) + 1]], p % ow)),
                                              Scale))])),
         ret |-> [width |-> ow, height |-> oh, data |-> Len(h1) + 1]]
      Stored(h0, re, imr, done) ==
        Image(StoreRows(StoreRows(h0, re, done.re), imr, done.im), re)
      \* the column transforms, then the row transforms, of the copies
      Inverse(re, imc) ==
        Stored(imc.heap, re.ret, imc.ret,
               FftRows(FftCols([re |-> Eval([y \in 1..Len(re.ret) |-> imc.heap[re.ret[y]]]),
                                im |-> Eval([y \in 1..Len(imc.ret) |-> imc.heap[imc.ret[y]]])],
                               w, TRUE), TRUE))
      \* const re = fft.re.map(...); const im = fft.im.map(...)
      Copied(re) == Inverse(re, CopyRows(re.heap, f.im))
  IN Copied(CopyRows(h, f.re))

RECURSIVE FloorLog2(_)
FloorLog2(v) == IF v < 2 THEN 0 ELSE 1 + FloorLog2(v \div 2)

RECURSIVE Pow2(_)
Pow2(e) == IF e = 0 THEN 1 ELSE 2 * Pow2(e - 1)

\* the next `bits` binary digits of log2 of the mantissa y / 2^14 in [1, 2)
RECURSIVE FracBits(_, _)
FracBits(y, bits) ==
  IF bits = 0 THEN 0
  ELSE LET y2 == (y * y) \div Pow2(14)
       IN IF y2 >= Pow2(15) THEN Pow2(bits - 1) + FracBits(y2 \div 2, bits - 1)
          ELSE FracBits(y2, bits - 1)

\* Math.log(1 + Math.sqrt(re^2 + im^2)) up to a constant factor, for a
\* coefficient of squared magnitude n (in units): 1024 log2(1 + sqrt n), with
\* the root taken to 1/8 and the logarithm to 10 binary digits.  fftToImage
\* uses only ratios of these, rounded to a sample.
LogMag(n) ==
  LET v == 8 + ISqrtIn(64 * n, 0, 46340)
      e == FloorLog2(v)
  IN 1024 * (e - 3) + FracBits((v * Pow2(14)) \div Pow2(e), 10)

fftToImage(h, f) ==
  LET w == f.width
      hh == f.height
      m == Planes(h, f)
      magnitudes == Eval([p \in 0..(w * hh - 1) |->
                       LET r == m.re[(p \div w) + 1][(p % w) + 1] \div Scale
                           q == m.im[(p \div w) + 1][(p % w) + 1] \div Scale
                       IN LogMag(r * r + q * q)])
      RECURSIVE MaxTo(_)
      MaxTo(n) == IF n < 0 THEN 0 ELSE Max(magnitudes[n], MaxTo(n - 1))
      maxLog == MaxTo(w * hh - 1)
      data == Eval([i \in 1..(4 * w * hh) |->
                 IF Chan(i) = 3 THEN 255
                 ELSE RoundDiv(magnitudes[(i - 1) \div 4] * 255,
                               IF maxLog = 0 THEN 1 ELSE maxLog)])
  IN [heap |-> Append(h, data),
      ret |-> [width |-> w, height |-> hh, data |-> Len(h) + 1]]

\* a mask with strict comparisons: the ring dist = radius is dropped by both
PassStrict(w, hh, x, y, radius, type) ==
  LET d4 == (2 * x - w) * (2 * x - w) + (2 * y - hh) * (2 * y - hh)
  IN IF type = "low" THEN (IF d4 < 4 * radius * radius THEN 1 ELSE 0)
     ELSE (IF d4 > 4 * radius * radius THEN 1 ELSE 0)

\* pass of applyFrequencyFilter at (x, y): dist <= radius (low) or
\* dist >= radius (high) for dist = sqrt((x - w/2)^2 + (y - h/2)^2), compared
\* through four times the squares
Pass(w, hh, x, y, radius, type) ==
  LET d4 == (2 * x - w) * (2 * x - w) + (2 * y - hh) * (2 * y - hh)
  IN IF type = "low" THEN (IF d4 <= 4 * radius * radius THEN 1 ELSE 0)
     ELSE (IF d4 >= 4 * radius * radius THEN 1 ELSE 0)

applyFrequencyFilter(h, f, radius, type) ==
  LET w == f.width
      hh == f.height
      re == CopyRows(h, f.re)
      imc == CopyRows(re.heap, f.im)
      masked(a) == Eval([y \in 1..hh |-> [x \in 1..w |->
                      imc.heap[a[y]][x] * Pass(w, hh, x - 1, y - 1, radius, type)]])
  IN [heap |-> StoreRows(StoreRows(imc.heap, re.ret, masked(re.ret)),
                         imc.ret, masked(imc.ret)),
      ret |-> [re |-> re.ret, im |-> imc.ret, width |-> w, height |-> hh,
               originalWidth |-> f.originalWidth,
               originalHeight |-> f.originalHeight]]

\* the spectrum createHybridImage hands to ifft2d: both inputs filtered, then
\* added coefficient by coefficient over the smaller width and height
combinedSpectrum(h, f1, f2, img1Mode, img2Mode, radius1, radius2) ==
  LET \* h2 is the heap after both filters
      Combined(h2, s1, s2) ==
        LET w == Min(s1.width, s2.width)
            hh == Min(s1.height, s2.height)
            sum(a, b) == Eval([y \in 1..hh |-> [x \in 1..w |->
                                 h2[a[y]][x] + h2[b[y]][x]]])
            \* combinedRe.push(new Float64Array(w)); combinedIm.push(...) per row
            Pushed(combinedRe, combinedIm) ==
              h2 \o Eval([k \in 1..(2 * hh) |->
                           IF k % 2 = 1 THEN combinedRe[(k + 1) \div 2]
                           ELSE combinedIm[k \div 2]])
        IN [heap |-> Pushed(sum(s1.re, s2.re), sum(s1.im, s2.im)),
            ret |-> [re |-> Eval([y \in 1..hh |-> Len(h2) + 2 * y - 1]),
                     im |-> Eval([y \in 1..hh |-> Len(h2) + 2 * y]),
                     width |-> w, height |-> hh,
                     originalWidth |-> Min(s1.originalWidth, s2.originalWidth),
                     originalHeight |-> Min(s1.originalHeight, s2.originalHeight)]]
      Both(filtered1, filtered2) == Combined(filtered2.heap, filtered1.ret, filtered2.ret)
      Second(filtered1) ==
        Both(filtered1, applyFrequencyFilter(filtered1.heap, f2, radius2, img2Mode))
  IN Second(applyFrequencyFilter(h, f1, radius1, img1Mode))

\* the two pass types handed over in the wrong order
createHybridImageModesSwapped(h, f1, f2, img1Mode, img2Mode, radius1, radius2) ==
  LET Inverse(combined) == ifft2d(combined.heap, combined.ret)
  IN Inverse(combinedSpectrum(h, f1, f2, img2Mode, img1Mode, radius1, radius2))

createHybridImage(h, f1, f2, img1Mode, img2Mode, radius1, radius2) ==
  LET Inverse(combined) == ifft2d(combined.heap, combined.ret)
  IN Inverse(combinedSpectrum(h, f1, f2, img1Mode, img2Mode, radius1, radius2))

----------------------------------------------------------------------------
(* The inputs a caller passes *)

Palette ==
  << <<0, 0, 0, 255>>, <<255, 255, 255, 255>>, <<255, 0, 0, 128>>,
     <<10, 200, 30, 255>> >>

K == Len(Palette)

\* the samples of the w x h image whose pixel (x, y) is
\* Palette[(a x + b y + c) mod K]: flat images, stripes, checkerboards, ramps
PatternSamples(w, h, a, b, c) ==
  Eval([i \in 1..(4 * w * h) |->
     LET p == (i - 1) \div 4
         x == p % w
         y == p \div w
     IN Palette[((a * x + b * y + c) % K) + 1][Chan(i) + 1]])

----------------------------------------------------------------------------
(* The caller *)

\* the parameter values the caller passes
KernelSizes == 1..MaxKernel
Radii == 0..MaxRadius
Percentages == {20, 100}
PassTypes == {"low", "high"}

\* Streams of random draws.  Math.random() yields k / RandDen; randGaussian()
\* yields z / 1000.  A call consumes the stream from a starting point.
RandomTable == <<0, 30, 100, 199>>
GaussTable == <<-3000, -500, 0, 1250>>
Stream(table, start, n) ==
  Eval([i \in 0..(n - 1) |-> table[((start + i) % Len(table)) + 1]])

\* the images loaded second for a hybrid: <<w, h, a, b, c>> of PatternSamples
SecondImages == { <<1, 1, 0, 0, 1>>, <<2, 3, 1, 1, 0>> }

Pixels(im) == im.width * im.height

\* an image of w x h pixels has been loaded and nothing called yet
Loaded(samples, w, h) ==
  /\ heap = << samples >>
  /\ img = [width |-> w, height |-> h, data |-> 1]
  /\ fft = NULL
  /\ fft2 = NULL
  /\ call = NoCall
  /\ ret = NULL
  /\ outcome = "none"
  /\ pc = "start"
  /\ ui = NoTab
  /\ loads = << >>
  /\ timers = << >>
  /\ clicks = 0

Init ==
  \E w \in 1..MaxW, h \in 1..MaxH, a \in 0..(K - 1), b \in 0..(K - 1), c \in 0..(K - 1) :
    Loaded(PatternSamples(w, h, a, b, c), w, h)

\* the caller receives the result r of the call c
Returned(r, c, nextpc) ==
  /\ heap' = r.heap
  /\ ret' = r.ret
  /\ call' = c
  /\ outcome' = "returned"
  /\ pc' = nextpc
  /\ UNCHANGED <<ui, loads, timers, clicks>>

ToGrayscale ==
  /\ pc = "start"
  /\ Returned(toGrayscale(heap, img), [op |-> "toGrayscale"], "called")
  /\ UNCHANGED <<img, fft, fft2>>

AddUniformNoise ==
  /\ pc = "start"
  /\ \E p \in Percentages, s \in 0..(Len(RandomTable) - 1) :
       Returned(addUniformNoise(heap, img, p, Stream(RandomTable, s, 3 * Pixels(img))),
                [op |-> "addUniformNoise", percentage |-> p], "called")
  /\ UNCHANGED <<img, fft, fft2>>

AddGaussianNoise ==
  /\ pc = "start"
  /\ \E p \in Percentages, s \in 0..(Len(GaussTable) - 1) :
       Returned(addGaussianNoise(heap, img, p, Stream(GaussTable, s, 3 * Pixels(img))),
                [op |-> "addGaussianNoise", percentage |-> p], "called")
  /\ UNCHANGED <<img, fft, fft2>>

AddSaltPepperNoise ==
  /\ pc = "start"
  /\ \E p \in Percentages, s \in 0..(Len(RandomTable) - 1) :
       Returned(addSaltPepperNoise(heap, img, p, Stream(RandomTable, s, Pixels(img))),
                [op |-> "addSaltPepperNoise", percentage |-> p,
                 draws |-> Stream(RandomTable, s, Pixels(img))], "called")
  /\ UNCHANGED <<img, fft, fft2>>

AverageFilter ==
  /\ pc = "start"
  /\ \E size \in KernelSizes :
       Returned(averageFilter(heap, img, size),
                [op |-> "averageFilter", size |-> size], "called")
  /\ UNCHANGED <<img, fft, fft2>>

GaussianFilter ==
  /\ pc = "start"
  /\ \E size \in KernelSizes :
       Returned(gaussianFilter(heap, img, size),
                [op |-> "gaussianFilter", size |-> size], "called")
  /\ UNCHANGED <<img, fft, fft2>>

MedianFilter ==
  /\ pc = "start"
  /\ \E size \in KernelSizes :
       Returned(medianFilter(heap, img, size),
                [op |-> "medianFilter", size |-> size], "called")
  /\ UNCHANGED <<img, fft, fft2>>

SobelFilter ==
  /\ pc = "start"
  /\ Returned(sobelFilter(heap, img), [op |-> "sobelFilter"], "called")
  /\ UNCHANGED <<img, fft, fft2>>

RobertsFilter ==
  /\ pc = "start"
  /\ Returned(robertsFilter(heap, img), [op |-> "robertsFilter"], "called")
  /\ UNCHANGED <<img, fft, fft2>>

PrewittFilter ==
  /\ pc = "start"
  /\ Returned(prewittFilter(heap, img), [op |-> "prewittFilter"], "called")
  /\ UNCHANGED <<img, fft, fft2>>

CannyEdgeDetector ==
  /\ pc = "start"
  /\ \E size \in KernelSizes :
       Returned(cannyEdgeDetector(heap, img, size),
                [op |-> "cannyEdgeDetector", size |-> size], "called")
  /\ UNCHANGED <<img, fft, fft2>>

ComputeHistogram ==
  /\ pc = "start"
  /\ Returned(computeHistogram(heap, img), [op |-> "computeHistogram"], "called")
  /\ UNCHANGED <<img, fft, fft2>>

NormalizeImage ==
  /\ pc = "start"
  /\ Returned(normalizeImage(heap, img), [op |-> "normalizeImage"], "called")
  /\ UNCHANGED <<img, fft, fft2>>

EqualizeImage ==
  /\ pc = "start"
  /\ Returned(equalizeImage(heap, img), [op |-> "equalizeImage"], "called")
  /\ UNCHANGED <<img, fft, fft2>>

\* the tone operations applied once more, to their own result (the caller's
\* current image is replaced by each result)
Again ==
  /\ pc = "called"
  /\ call.op \in {"toGrayscale", "normalizeImage", "equalizeImage"}
  /\ img' = ret
  /\ Returned(CASE call.op = "toGrayscale" -> toGrayscale(heap, ret)
                [] call.op = "normalizeImage" -> normalizeImage(heap, ret)
                [] OTHER -> equalizeImage(heap, ret),
              call, "twice")
  /\ UNCHANGED <<fft, fft2>>

Fft2d ==
  /\ pc = "start"
  /\ LET r == fft2d(heap, img)
     IN /\ Returned(r, [op |-> "fft2d", source |-> img], "spectrum")
        /\ fft' = r.ret
  /\ UNCHANGED <<img, fft2>>

Ifft2d ==
  /\ pc = "spectrum"
  /\ Returned(ifft2d(heap, fft), [op |-> "ifft2d", of |-> "fft2d"], "called")
  /\ UNCHANGED <<img, fft, fft2>>

FftToImage ==
  /\ pc = "spectrum"
  /\ Returned(fftToImage(heap, fft), [op |-> "fftToImage"], "called")
  /\ UNCHANGED <<img, fft, fft2>>

ApplyFrequencyFilter ==
  /\ pc = "spectrum"
  /\ \E radius \in Radii, type \in PassTypes :
       Returned(applyFrequencyFilter(heap, fft, radius, type),
                [op |-> "applyFrequencyFilter", radius |-> radius, type |-> type],
                "masked")
  /\ UNCHANGED <<img, fft, fft2>>

\* the inverse transform of the masked spectrum just returned
Ifft2dMasked ==
  /\ pc = "masked"
  /\ Returned(ifft2d(heap, ret), [op |-> "ifft2d", of |-> "applyFrequencyFilter"],
              "called")
  /\ UNCHANGED <<img, fft, fft2>>

\* a second image is loaded and transformed, for a hybrid
Fft2dSecond ==
  /\ pc = "spectrum"
  /\ \E s \in SecondImages :
       LET h1 == Append(heap, PatternSamples(s[1], s[2], s[3], s[4], s[5]))
           second == [width |-> s[1], height |-> s[2], data |-> Len(h1)]
           r == fft2d(h1, second)
       IN /\ Returned(r, [op |-> "fft2d", source |-> second], "pair")
          /\ fft2' = r.ret
  /\ UNCHANGED <<img, fft>>

\* the two spectra are mixed, each mode chosen freely and both radii set to
\* the same value (the two sliders start equal)
CreateHybridImage ==
  /\ pc = "pair"
  /\ \E m1 \in PassTypes, m2 \in PassTypes, r \in Radii :
       Returned(createHybridImage(heap, fft, fft2, m1, m2, r, r),
                [op |-> "createHybridImage", img1Mode |-> m1, img2Mode |-> m2,
                 radius1 |-> r, radius2 |-> r], "called")
  /\ UNCHANGED <<img, fft, fft2>>

Next ==
  \/ ToGrayscale
  \/ AddUniformNoise
  \/ AddGaussianNoise
  \/ AddSaltPepperNoise
  \/ AverageFilter
  \/ GaussianFilter
  \/ MedianFilter
  \/ SobelFilter
  \/ RobertsFilter
  \/ PrewittFilter
  \/ CannyEdgeDetector
  \/ ComputeHistogram
  \/ NormalizeImage
  \/ EqualizeImage
  \/ Again
  \/ Fft2d
  \/ Ifft2d
  \/ FftToImage
  \/ ApplyFrequencyFilter
  \/ Ifft2dMasked
  \/ Fft2dSecond
  \/ CreateHybridImage

Spec == Init /\ [][Next]_vars

----------------------------------------------------------------------------
(* Salt-and-pepper noise under every sequence of draws of a short period *)

\* the draws tried for a percentage p, as counts k of 1/RandDen: the least and
\* the greatest draw and the ones on either side of p/200 and p/100
DrawValues(p) == {0, p - 1, p, 2 * p - 1, Min(2 * p, RandDen - 1), RandDen - 1}

\* the draws of successive pixels repeat with this period
DrawPeriod == 2

AddSaltPepperNoiseDrawn ==
  /\ pc = "start"
  /\ \E p \in Percentages : \E d \in [0..(DrawPeriod - 1) -> DrawValues(p)] :
       LET draws == Eval([i \in 0..(Pixels(img) - 1) |-> d[i % DrawPeriod]])
       IN Returned(addSaltPepperNoise(heap, img, p, draws),
                   [op |-> "addSaltPepperNoise", percentage |-> p, draws |-> draws],
                   "called")
  /\ UNCHANGED <<img, fft, fft2>>

NextNoise == AddSaltPepperNoiseDrawn

SpecNoise == Init /\ [][NextNoise]_vars

----------------------------------------------------------------------------
(* The tone operations, on the small images and on long one-row images *)

\* the width of the longest one-row image
MaxWide == 513

WideWidths == {MaxWide - 1, MaxWide}

\* a mostly white row of n gray pixels that starts 0, 1, 128
WideSamples(n) ==
  Eval([i \in 1..(4 * n) |->
     IF Chan(i) = 3 THEN 255
     ELSE CASE (i - 1) \div 4 = 0 -> 0
            [] (i - 1) \div 4 = 1 -> 1
            [] (i - 1) \div 4 = 2 -> 128
            [] OTHER -> 255])

InitTone ==
  \/ Init
  \/ \E n \in WideWidths : Loaded(WideSamples(n), n, 1)

NextTone ==
  \/ ToGrayscale
  \/ NormalizeImage
  \/ EqualizeImage
  \/ Again

SpecTone == InitTone /\ [][NextTone]_vars

----------------------------------------------------------------------------
(* The edge detectors, on the small images and on gray ramps *)

\* the darkest sample and the step of a ramp
RampBases == {0, 9}
RampSteps == {0, 32, 33, 41}

\* the samples of the opaque gray w x h image whose pixel (x, y) has the value
\* base + step (x + y): flat when step is 0, else a diagonal ramp
RampSamples(w, h, base, step) ==
  Eval([i \in 1..(4 * w * h) |->
     IF Chan(i) = 3 THEN 255
     ELSE LET p == (i - 1) \div 4
          IN Min(255, base + step * ((p % w) + (p \div w)))])

InitEdge ==
  \/ Init
  \/ \E w \in 1..MaxW, h \in 1..MaxH, base \in RampBases, step \in RampSteps :
       Loaded(RampSamples(w, h, base, step), w, h)

NextEdge ==
  \/ SobelFilter
  \/ RobertsFilter
  \/ PrewittFilter
  \/ CannyEdgeDetector

SpecEdge == InitEdge /\ [][NextEdge]_vars

----------------------------------------------------------------------------
(* Hybrid images, with a free pass type and radius for each image *)

\* the image of the first slot is uploaded to the second slot as well
Fft2dSame ==
  /\ pc = "spectrum"
  /\ LET h1 == Append(heap, heap[img.data])
         second == [width |-> img.width, height |-> img.height, data |-> Len(h1)]
         r == fft2d(h1, second)
     IN /\ Returned(r, [op |-> "fft2d", source |-> second], "pair")
        /\ fft2' = r.ret
  /\ UNCHANGED <<img, fft>>

\* Mix Images with any setting of the two selects and the two sliders
CreateHybridImageFree ==
  /\ pc = "pair"
  /\ \E m1 \in PassTypes, m2 \in PassTypes, r1 \in Radii, r2 \in Radii :
       Returned(createHybridImage(heap, fft, fft2, m1, m2, r1, r2),
                [op |-> "createHybridImage", img1Mode |-> m1, img2Mode |-> m2,
                 radius1 |-> r1, radius2 |-> r2], "called")
  /\ UNCHANGED <<img, fft, fft2>>

\* the first image: the patterns that start with one of the first two colours
InitHybrid ==
  \E w \in 1..MaxW, h \in 1..MaxH, a \in 0..(K - 1), b \in 0..(K - 1), c \in 0..1 :
    Loaded(PatternSamples(w, h, a, b, c), w, h)

NextHybrid ==
  \/ Fft2d
  \/ Fft2dSame
  \/ Fft2dSecond
  \/ CreateHybridImageFree

SpecHybrid == InitHybrid /\ [][NextHybrid]_vars

----------------------------------------------------------------------------
(* The two frequency tabs: uploads, deferred transforms, the processing flag *)

\* how many uploads and how many effective button clicks a run has at most
MaxUploads == 2
MaxClicks == 1

\* the files a user uploads: <<w, h, a, b, c>> of PatternSamples
UploadImages == SecondImages

\* the state of FrequencyFilterTab and of HybridImageTab when mounted
FrequencyMounted ==
  [tab |-> "frequency", original |-> NULL, fftImage |-> NULL,
   filteredImage |-> NULL, fftData |-> NULL, processing |-> FALSE]

HybridMounted ==
  [tab |-> "hybrid", img1 |-> NULL, img2 |-> NULL, fft1Img |-> NULL,
   fft2Img |-> NULL, fft1Data |-> NULL, fft2Data |-> NULL, output |-> NULL,
   processing |-> FALSE]

InitTabs ==
  /\ heap = << >>
  /\ img = NULL
  /\ fft = NULL
  /\ fft2 = NULL
  /\ call = NoCall
  /\ ret = NULL
  /\ outcome = "none"
  /\ pc = "mounted"
  /\ ui \in {FrequencyMounted, HybridMounted}
  /\ loads = << >>
  /\ timers = << >>
  /\ clicks = 0

\* what the tab components leave alone
caller == <<img, fft, fft2, call, ret, outcome, pc>>

\* the ImageData that getImageData returns for the file s, allocated next
Decoded(s) == [width |-> s[1], height |-> s[2], data |-> Len(heap) + 1]

\* a file is dropped on or chosen for an image box: the handler runs up to
\* `await loadImageToCanvas(url)`.  The tab has one box (slot 0) or two.
UploadStarted ==
  /\ ui.tab # "none"
  /\ Len(loads) < MaxUploads
  /\ \E s \in UploadImages, slot \in (IF ui.tab = "frequency" THEN {0} ELSE {1, 2}) :
       loads' = Append(loads, [slot |-> slot, image |-> s, state |-> "loading"])
  /\ UNCHANGED <<heap, ui, timers, clicks, caller>>

\* img.onerror: the promise is rejected and the handler ends at its await
LoadFailed ==
  /\ \E n \in 1..Len(loads) :
       /\ loads[n].state = "loading"
       /\ loads' = [loads EXCEPT ![n].state = "failed"]
  /\ UNCHANGED <<heap, ui, timers, clicks, caller>>

\* FrequencyFilterTab.handleUpload after its await: any pending load may be
\* the next to complete
FrequencyImageLoaded ==
  /\ ui.tab = "frequency"
  /\ \E n \in 1..Len(loads) :
       /\ loads[n].state = "loading"
       /\ loads' = [loads EXCEPT ![n].state = "done"]
       /\ heap' = Append(heap, PatternSamples(loads[n].image[1], loads[n].image[2],
                                              loads[n].image[3], loads[n].image[4],
                                              loads[n].image[5]))
       /\ ui' = [ui EXCEPT !.original = Decoded(loads[n].image), !.processing = TRUE]
       /\ timers' = Append(timers, [run |-> "transform", slot |-> 0,
                                    imageData |-> Decoded(loads[n].image)])
  /\ UNCHANGED <<clicks, caller>>

\* the callback handleUpload scheduled: all delays are 50 ms, so callbacks run
\* in the order they were scheduled
FrequencyTransform ==
  /\ ui.tab = "frequency"
  /\ timers # << >>
  /\ Head(timers).run = "transform"
  /\ LET Shown(f, v) ==
           /\ heap' = v.heap
           /\ ui' = [ui EXCEPT !.fftData = f.ret, !.fftImage = v.ret,
                               !.filteredImage = NULL, !.processing = FALSE]
         Transformed(f) == Shown(f, fftToImage(f.heap, f.ret))
     IN Transformed(fft2d(heap, Head(timers).imageData))
  /\ timers' = Tail(timers)
  /\ UNCHANGED <<loads, clicks, caller>>

\* Apply Filter, enabled unless !fftData || processing, with any setting of
\* the select and the slider: applyFilter closes over the fftData, radius and
\* filterType of the render the click happens in
ApplyFilterClicked ==
  /\ ui.tab = "frequency"
  /\ ui.fftData # NULL
  /\ ~ui.processing
  /\ clicks < MaxClicks
  /\ \E radius \in Radii, type \in PassTypes :
       timers' = Append(timers, [run |-> "filter", fftData |-> ui.fftData,
                                 radius |-> radius, type |-> type])
  /\ ui' = [ui EXCEPT !.processing = TRUE]
  /\ clicks' = clicks + 1
  /\ UNCHANGED <<heap, loads, caller>>

\* the callback applyFilter scheduled
FrequencyFilter ==
  /\ ui.tab = "frequency"
  /\ timers # << >>
  /\ Head(timers).run = "filter"
  /\ LET Shown(r) ==
           /\ heap' = r.heap
           /\ ui' = [ui EXCEPT !.filteredImage = r.ret, !.processing = FALSE]
         Filtered(m) == Shown(ifft2d(m.heap, m.ret))
     IN Filtered(applyFrequencyFilter(heap, Head(timers).fftData,
                                      Head(timers).radius, Head(timers).type))
  /\ timers' = Tail(timers)
  /\ UNCHANGED <<loads, clicks, caller>>

\* HybridImageTab.handleUpload1 / handleUpload2 after their await
HybridImageLoaded ==
  /\ ui.tab = "hybrid"
  /\ \E n \in 1..Len(loads) :
       /\ loads[n].state = "loading"
       /\ loads' = [loads EXCEPT ![n].state = "done"]
       /\ heap' = Append(heap, PatternSamples(loads[n].image[1], loads[n].image[2],
                                              loads[n].image[3], loads[n].image[4],
                                              loads[n].image[5]))
       /\ ui' = IF loads[n].slot = 1
                  THEN [ui EXCEPT !.img1 = Decoded(loads[n].image), !.processing = TRUE]
                  ELSE [ui EXCEPT !.img2 = Decoded(loads[n].image), !.processing = TRUE]
       /\ timers' = Append(timers, [run |-> "transform", slot |-> loads[n].slot,
                                    imageData |-> Decoded(loads[n].image)])
  /\ UNCHANGED <<clicks, caller>>

\* the callback handleUpload1 or handleUpload2 scheduled
HybridTransform ==
  /\ ui.tab = "hybrid"
  /\ timers # << >>
  /\ Head(timers).run = "transform"
  /\ LET Shown(f, v) ==
           /\ heap' = v.heap
           /\ ui' = IF Head(timers).slot = 1
                      THEN [ui EXCEPT !.fft1Data = f.ret, !.fft1Img = v.ret,
                                      !.processing = FALSE]
                      ELSE [ui EXCEPT !.fft2Data = f.ret, !.fft2Img = v.ret,
                                      !.processing = FALSE]
         Transformed(f) == Shown(f, fftToImage(f.heap, f.ret))
     IN Transformed(fft2d(heap, Head(timers).imageData))
  /\ timers' = Tail(timers)
  /\ UNCHANGED <<loads, clicks, caller>>

\* Mix Images, enabled unless !fft1Data || !fft2Data || processing, with any
\* setting of the two selects and the two sliders: mix closes over the
\* spectra, modes and radii of the render the click happens in
MixClicked ==
  /\ ui.tab = "hybrid"
  /\ ui.fft1Data # NULL
  /\ ui.fft2Data # NULL
  /\ ~ui.processing
  /\ clicks < MaxClicks
  /\ \E m1 \in PassTypes, m2 \in PassTypes, r1 \in Radii, r2 \in Radii :
       timers' = Append(timers, [run |-> "mix", fft1Data |-> ui.fft1Data,
                                 fft2Data |-> ui.fft2Data, mode1 |-> m1,
                                 mode2 |-> m2, radius1 |-> r1, radius2 |-> r2])
  /\ ui' = [ui EXCEPT !.processing = TRUE]
  /\ clicks' = clicks + 1
  /\ UNCHANGED <<heap, loads, caller>>

\* the callback mix scheduled
HybridMix ==
  /\ ui.tab = "hybrid"
  /\ timers # << >>
  /\ Head(timers).run = "mix"
  /\ LET Shown(r) ==
           /\ heap' = r.heap
           /\ ui' = [ui EXCEPT !.output = r.ret, !.processing = FALSE]
     IN Shown(createHybridImage(heap, Head(timers).fft1Data, Head(timers).fft2Data,
                                Head(timers).mode1, Head(timers).mode2,
                                Head(timers).radius1, Head(timers).radius2))
  /\ timers' = Tail(timers)
  /\ UNCHANGED <<loads, clicks, caller>>

NextTabs ==
  \/ UploadStarted
  \/ LoadFailed
  \/ FrequencyImageLoaded
  \/ FrequencyTransform
  \/ ApplyFilterClicked
  \/ FrequencyFilter
  \/ HybridImageLoaded
  \/ HybridTransform
  \/ MixClicked
  \/ HybridMix

SpecTabs == InitTabs /\ [][NextTabs]_vars

----------------------------------------------------------------------------
(* Properties *)

\* the addresses of the arrays an ImageData or a spectrum r is made of (none
\* for the record of histograms)
StorageOf(r) ==
  IF "data" \in DOMAIN r THEN {r.data}
  ELSE IF "re" \in DOMAIN r
    THEN {r.re[y] : y \in 1..Len(r.re)} \cup {r.im[y] : y \in 1..Len(r.im)}
    ELSE {}

\* C1: no transform mutates its input.  Over every call, every array that
\* existed before the call (the samples of the input buffer, the real and
\* imaginary rows of the input spectrum, and everything else) holds the same
\* values after it, and the arrays of the returned buffer or spectrum are all
\* allocated by the call, so none is shared with the input.
C1_NoInputMutation ==
  [][ /\ Len(heap') >= Len(heap)
      /\ \A a \in 1..Len(heap) : heap'[a] = heap[a]
      /\ \A a \in StorageOf(ret') : a > Len(heap) /\ a <= Len(heap') ]_vars

\* a hybrid has been built from two filtered spectra: the deepest chain of
\* calls, with both images and both spectra still on the heap
C1_Witness ==
  /\ pc = "called"
  /\ call.op = "createHybridImage"
  /\ StorageOf(ret) # {}
  /\ StorageOf(fft) \cap StorageOf(fft2) = {}
  /\ Len(heap) > Len(fft.re) + Len(fft2.re)

\* the coefficient (re, im) of a spectrum s at (x, y), read from the heap h
Coefficient(h, s, x, y) == <<h[s.re[y + 1]][x + 1], h[s.im[y + 1]][x + 1]>>

\* C2: FFT round trip.  For every buffer (3 wide or high ones are zero-padded
\* to 4), ifft2d(fft2d(buffer)) has the original width and height, and at
\* every pixel R = G = B lies within 1 of the sample of toGrayscale(buffer);
\* alpha is 255.
C2_FftRoundTrip ==
  (pc = "called" /\ call.op = "ifft2d" /\ call.of = "fft2d") =>
    LET gray == GrayData(heap[img.data])
        out == heap[ret.data]
    IN /\ ret.width = img.width
       /\ ret.height = img.height
       /\ Len(out) = 4 * img.width * img.height
       /\ \A p \in 0..(Pixels(img) - 1) :
            /\ At(out, 4 * p) = At(out, 4 * p + 1)
            /\ At(out, 4 * p + 1) = At(out, 4 * p + 2)
            /\ Abs(At(out, 4 * p) - At(gray, 4 * p)) <= 1

\* a zero-padded 3 x 3 buffer with colour in it has made the round trip
C2_Witness ==
  /\ pc = "called"
  /\ call.op = "ifft2d"
  /\ call.of = "fft2d"
  /\ img.width = 3
  /\ img.height = 3
  /\ fft.width = 4
  /\ ~isGrayscale(heap, img)
  /\ \E p \in 0..(Pixels(img) - 1) : At(heap[ret.data], 4 * p) \notin {0, 255}

\* C3: radial masks.  With d the distance of (x, y) from (width/2, height/2)
\* (compared through 4 d^2 and 4 r^2): 'low' leaves the coefficient as it was
\* when d <= r and zeroes it otherwise, 'high' leaves it when d >= r and
\* zeroes it otherwise; so of the two masks at one radius exactly one keeps a
\* coordinate with d # r, and both keep a coordinate with d = r.
C3_RadialMasks ==
  (pc = "masked" /\ call.op = "applyFrequencyFilter") =>
    LET w == fft.width
        hh == fft.height
        r == call.radius
        other == applyFrequencyFilter(heap, fft, r,
                                      IF call.type = "low" THEN "high" ELSE "low")
    IN \A x \in 0..(w - 1), y \in 0..(hh - 1) :
         LET d4 == (2 * x - w) * (2 * x - w) + (2 * y - hh) * (2 * y - hh)
             in == Coefficient(heap, fft, x, y)
             out == Coefficient(heap, ret, x, y)
             outOther == Coefficient(other.heap, other.ret, x, y)
             keeps == IF call.type = "low" THEN d4 <= 4 * r * r ELSE d4 >= 4 * r * r
         IN /\ out = (IF keeps THEN in ELSE <<0, 0>>)
            /\ d4 = 4 * r * r => out = in /\ outOther = in
            /\ d4 # 4 * r * r =>
                 \/ out = in /\ outOther = <<0, 0>>
                 \/ out = <<0, 0>> /\ outOther = in

\* a mask whose ring d = r holds a nonzero coefficient, which it keeps, and
\* which zeroes a nonzero coefficient elsewhere
C3_Witness ==
  /\ pc = "masked"
  /\ call.op = "applyFrequencyFilter"
  /\ call.radius > 0
  /\ \E x \in 0..(fft.width - 1), y \in 0..(fft.height - 1) :
       /\ (2 * x - fft.width) * (2 * x - fft.width)
            + (2 * y - fft.height) * (2 * y - fft.height)
              = 4 * call.radius * call.radius
       /\ Coefficient(heap, fft, x, y) # <<0, 0>>
       /\ Coefficient(heap, ret, x, y) = Coefficient(heap, fft, x, y)
  /\ \E x \in 0..(fft.width - 1), y \in 0..(fft.height - 1) :
       /\ Coefficient(heap, fft, x, y) # <<0, 0>>
       /\ Coefficient(heap, ret, x, y) = <<0, 0>>

\* the sum of the 256 bins of a histogram
SumBins(hist) == RunningSums(hist, 0, 255, 0)[256]

\* C4: each of the four histograms of computeHistogram (r, g, b, gray) has the
\* 256 bins 0..255 and its counts sum to width x height; isGray is true
\* exactly when every pixel has R = G = B, which is what isGrayscale answers.
C4_Histogram ==
  (pc = "called" /\ call.op = "computeHistogram") =>
    /\ \A hist \in {ret.r, ret.g, ret.b, ret.gray} :
         /\ DOMAIN hist = 0..255
         /\ SumBins(hist) = img.width * img.height
    /\ ret.isGray = (\A p \in 0..(Pixels(img) - 1) :
                       LET d == heap[img.data]
                       IN At(d, 4 * p) = At(d, 4 * p + 1) /\ At(d, 4 * p) = At(d, 4 * p + 2))
    /\ ret.isGray = isGrayscale(heap, img)

\* histograms of a coloured 3 x 3 buffer, with several bins filled
C4_Witness ==
  /\ pc = "called"
  /\ call.op = "computeHistogram"
  /\ Pixels(img) = 3 * 3
  /\ ~ret.isGray
  /\ Cardinality({v \in 0..255 : ret.gray[v] > 0}) >= 3

\* whether channel c of the samples d holds one value only
FlatChannel(d, c) ==
  \A p, q \in 0..((Len(d) \div 4) - 1) : At(d, 4 * p + c) = At(d, 4 * q + c)

\* C5: equalizing a flat buffer leaves it unchanged.  When a channel of the
\* input is constant (totalPixels - cdfMin = 0), every output sample of that
\* channel equals the input sample.
C5_FlatChannelUnchanged ==
  (pc = "called" /\ call.op = "equalizeImage") =>
    \A c \in 0..2 :
      FlatChannel(heap[img.data], c) =>
        \A p \in 0..(Pixels(img) - 1) :
          At(heap[ret.data], 4 * p + c) = At(heap[img.data], 4 * p + c)

\* C6: invalid input is rejected.  A call of averageFilter, gaussianFilter,
\* medianFilter or cannyEdgeDetector with an even kernel size ends in an
\* invalid-input failure and returns nothing.
C6_InvalidInputRejected ==
  (/\ pc = "called"
   /\ call.op \in {"averageFilter", "gaussianFilter", "medianFilter", "cannyEdgeDetector"}
   /\ call.size % 2 = 0)
    => outcome = "invalid-input" /\ ret = NULL

\* (R, G, B) of pixel p of the samples d
Rgb(d, p) == <<At(d, 4 * p), At(d, 4 * p + 1), At(d, 4 * p + 2)>>

\* C7: salt-and-pepper decides once per pixel.  With u = k / RandDen the draw
\* of the pixel and p the percentage: u < p/200 gives (0, 0, 0), p/200 <= u <
\* p/100 gives (255, 255, 255), anything else leaves R, G, B as they were; so
\* at p = 100 every output pixel is (0, 0, 0) or (255, 255, 255).
C7_SaltPepperPerPixel ==
  (pc = "called" /\ call.op = "addSaltPepperNoise") =>
    LET p == call.percentage
    IN \A px \in 0..(Pixels(img) - 1) :
         LET k == call.draws[px]
             out == Rgb(heap[ret.data], px)
         IN /\ 200 * k < p * RandDen => out = <<0, 0, 0>>
            /\ (200 * k >= p * RandDen /\ 100 * k < p * RandDen) => out = <<255, 255, 255>>
            /\ 100 * k >= p * RandDen => out = Rgb(heap[img.data], px)
            /\ p = 100 => out \in {<<0, 0, 0>>, <<255, 255, 255>>}

\* one call at p < 100 that peppers a pixel, salts its neighbour and, in
\* another state, leaves a coloured pixel alone
C7_Witness ==
  /\ pc = "called"
  /\ call.op = "addSaltPepperNoise"
  /\ call.percentage < 100
  /\ Pixels(img) >= 2
  /\ Rgb(heap[img.data], 0) \notin {<<0, 0, 0>>, <<255, 255, 255>>}
  /\ Rgb(heap[img.data], 1) \notin {<<0, 0, 0>>, <<255, 255, 255>>}
  /\ \/ /\ 200 * call.draws[0] < call.percentage * RandDen
        /\ 200 * call.draws[1] >= call.percentage * RandDen
        /\ 100 * call.draws[1] < call.percentage * RandDen
        /\ Rgb(heap[ret.data], 0) = <<0, 0, 0>>
        /\ Rgb(heap[ret.data], 1) = <<255, 255, 255>>
     \/ /\ 100 * call.draws[0] = call.percentage * RandDen
        /\ Rgb(heap[ret.data], 0) = Rgb(heap[img.data], 0)

\* the sum of a sequence of numbers
RECURSIVE SumSeq(_)
SumSeq(s) == IF s = <<>> THEN 0 ELSE Head(s) + SumSeq(Tail(s))

\* the coordinate in 0..n-1 nearest to v
Nearest(v, n) == IF v < 0 THEN 0 ELSE IF v > n - 1 THEN n - 1 ELSE v

\* the rounded unweighted mean of channel c over the size x size neighbourhood
\* of (x, y) in the samples src, a neighbour outside the image being replaced
\* by the nearest one inside
BoxMean(src, w, h, size, x, y, c) ==
  LET half == (size - 1) \div 2
      neighbour(n) ==
        LET dx == ((n - 1) % size) - half
            dy == ((n - 1) \div size) - half
        IN At(src, (Nearest(y + dy, h) * w + Nearest(x + dx, w)) * 4 + c)
  IN RoundDiv(SumSeq([n \in 1..(size * size) |-> neighbour(n)]), size * size)

\* every R, G, B sample of averageFilter's output is the BoxMean of its
\* neighbourhood, for an odd size
BoxFilterMeans ==
  (pc = "called" /\ call.op = "averageFilter" /\ call.size % 2 = 1) =>
    \A x \in 0..(img.width - 1), y \in 0..(img.height - 1), c \in 0..2 :
      At(heap[ret.data], (y * img.width + x) * 4 + c)
        = BoxMean(heap[img.data], img.width, img.height, call.size, x, y, c)

\* the 2 x 2 buffer (0,0,0), (255,255,255), (0,0,0), (255,255,255), opaque
ExampleBuffer ==
  << 0, 0, 0, 255,  255, 255, 255, 255,  0, 0, 0, 255,  255, 255, 255, 255 >>

\* averageFilter of size 3 has been applied to the example buffer
ExampleFiltered ==
  /\ pc = "called"
  /\ call.op = "averageFilter"
  /\ call.size = 3
  /\ img.width = 2
  /\ img.height = 2
  /\ heap[img.data] = ExampleBuffer

\* C8: box filter with replicate border.  For an odd size each R, G, B sample
\* of averageFilter's output is the rounded unweighted mean of its size x size
\* neighbourhood with out-of-bounds neighbours replaced by the nearest pixel;
\* on the example buffer with size 3 each pixel is gray with that mean, which
\* is 85 in the left column and 170 in the right one.
C8_BoxFilter ==
  /\ BoxFilterMeans
  /\ ExampleFiltered =>
       heap[ret.data] = << 85, 85, 85, 255,  170, 170, 170, 255,
                           85, 85, 85, 255,  170, 170, 170, 255 >>

\* the example buffer filtered with size 3
C8_Witness ==
  /\ ExampleFiltered
  /\ isGrayscale(heap, ret)

\* C8 as stated: the same means, and on the example buffer a uniformly gray
\* result, every output pixel holding one and the same value.
C8_BoxFilterUniform ==
  /\ BoxFilterMeans
  /\ ExampleFiltered =>
       \A p, q \in 0..(Pixels(ret) - 1), c \in 0..2 :
         At(heap[ret.data], 4 * p + c) = At(heap[ret.data], 4 * q)

\* C9: grayscale conversion is idempotent.  The result of toGrayscale is
\* achromatic with the input's size and alpha, and converting that result
\* again gives the same samples; a gray triple (g, g, g) has luma g for every
\* g in 0..255.
C9_GrayscaleIdempotent ==
  /\ \A g \in 0..255 : Luma(g, g, g) = g
  /\ (pc = "called" /\ call.op = "toGrayscale") =>
       /\ isGrayscale(heap, ret)
       /\ ret.width = img.width /\ ret.height = img.height
       /\ Len(heap[ret.data]) = Len(heap[img.data])
       /\ \A p \in 0..(Pixels(img) - 1) :
            At(heap[ret.data], 4 * p + 3) = At(heap[img.data], 4 * p + 3)
  /\ (pc = "twice" /\ call.op = "toGrayscale") =>
       /\ isGrayscale(heap, ret)
       /\ heap[ret.data] = heap[img.data]

\* a coloured buffer with a translucent pixel converted twice
C9_Witness ==
  /\ pc = "twice"
  /\ call.op = "toGrayscale"
  /\ ~isGrayscale(heap, [width |-> img.width, height |-> img.height, data |-> 1])
  /\ \E p \in 0..(Pixels(img) - 1) : At(heap[ret.data], 4 * p + 3) # 255
  /\ ret.data # img.data

\* whether each of R, G, B of the samples d has a sample 0 and a sample 255
Spread(d) ==
  \A c \in 0..2 :
    /\ \E p \in 0..((Len(d) \div 4) - 1) : At(d, 4 * p + c) = 0
    /\ \E p \in 0..((Len(d) \div 4) - 1) : At(d, 4 * p + c) = 255

\* the most pixels for which a second equalizeImage never differs: a sample
\* other than the least maps to 0 only when totalPixels - cdfMin > 2 * 255, and
\* the second pass then rounds apart from the first only from 513 pixels on
EqualizeSafePixels == 2 * 255 + 2

\* C10: equalize is idempotent on fully spread channels, for buffers of at most
\* EqualizeSafePixels pixels.  For every such buffer in which each of R, G, B
\* has a sample 0 and a sample 255, equalizing the result of equalizeImage
\* again gives the same samples.
C10_EqualizeIdempotentSmall ==
  (/\ pc = "twice"
   /\ call.op = "equalizeImage"
   /\ Spread(heap[1])
   /\ Pixels(img) <= EqualizeSafePixels)
    => heap[ret.data] = heap[img.data]

\* equalizeImage applied twice to the spread row of 512 pixels, whose first
\* pass has changed it
C10_Witness ==
  /\ pc = "twice"
  /\ call.op = "equalizeImage"
  /\ Spread(heap[1])
  /\ Pixels(img) = EqualizeSafePixels
  /\ heap[img.data] # heap[1]
  /\ heap[ret.data] = heap[img.data]

\* C10 as stated, for buffers of every size: whenever each of R, G, B of the
\* input has a sample 0 and a sample 255, the second equalizeImage returns the
\* samples of the first.
C10_EqualizeIdempotent ==
  (pc = "twice" /\ call.op = "equalizeImage" /\ Spread(heap[1]))
    => heap[ret.data] = heap[img.data]

\* whether channel c of the samples d has a sample 0 and a sample 255
SpreadChannel(d, c) ==
  /\ \E p \in 0..((Len(d) \div 4) - 1) : At(d, 4 * p + c) = 0
  /\ \E p \in 0..((Len(d) \div 4) - 1) : At(d, 4 * p + c) = 255

\* C11: normalize is idempotent.  normalizeImage returns a buffer equal to its
\* input when each of R, G, B has minimum 0 and maximum 255; a constant channel
\* comes back all zeros and every other channel comes back with minimum 0 and
\* maximum 255; and normalizing the result again gives the same samples.
C11_NormalizeIdempotent ==
  /\ (pc = "called" /\ call.op = "normalizeImage") =>
       /\ Spread(heap[img.data]) => heap[ret.data] = heap[img.data]
       /\ \A c \in 0..2 :
            /\ SpreadChannel(heap[img.data], c) =>
                 \A p \in 0..(Pixels(img) - 1) :
                   At(heap[ret.data], 4 * p + c) = At(heap[img.data], 4 * p + c)
            /\ FlatChannel(heap[img.data], c) =>
                 \A p \in 0..(Pixels(img) - 1) : At(heap[ret.data], 4 * p + c) = 0
            /\ ~FlatChannel(heap[img.data], c) => SpreadChannel(heap[ret.data], c)
  /\ (pc = "twice" /\ call.op = "normalizeImage") => heap[ret.data] = heap[img.data]

\* a buffer that is not fully spread normalized twice: the first pass changed
\* it into a fully spread buffer holding a sample other than 0 and 255, which
\* the second pass returned as it was
C11_Witness ==
  /\ pc = "twice"
  /\ call.op = "normalizeImage"
  /\ ~Spread(heap[1])
  /\ heap[img.data] # heap[1]
  /\ Spread(heap[img.data])
  /\ \E i \in 1..Len(heap[img.data]) : Chan(i) # 3 /\ heap[img.data][i] \notin {0, 255}
  /\ heap[ret.data] = heap[img.data]

\* the noise operations and the smoothing filters
AlphaPreserving ==
  {"addUniformNoise", "addGaussianNoise", "addSaltPepperNoise",
   "averageFilter", "gaussianFilter", "medianFilter"}

\* C12: alpha is passed through.  The output of the three noise operations and
\* of averageFilter, gaussianFilter and medianFilter, for every percentage and
\* size tried, has the width and height of the input and at every pixel the
\* input's alpha sample.
C12_AlphaPassedThrough ==
  (pc = "called" /\ call.op \in AlphaPreserving) =>
    /\ ret.width = img.width
    /\ ret.height = img.height
    /\ Len(heap[ret.data]) = Len(heap[img.data])
    /\ \A p \in 0..(Pixels(img) - 1) :
         At(heap[ret.data], 4 * p + 3) = At(heap[img.data], 4 * p + 3)

\* a smoothing filter has changed the colour of a translucent pixel next to
\* an opaque one
C12_Witness ==
  /\ pc = "called"
  /\ call.op \in {"averageFilter", "gaussianFilter"}
  /\ call.size > 1
  /\ \E p, q \in 0..(Pixels(img) - 1) :
       /\ At(heap[img.data], 4 * p + 3) = 128
       /\ At(heap[img.data], 4 * q + 3) = 255
       /\ Rgb(heap[ret.data], p) # Rgb(heap[img.data], p)
       /\ At(heap[ret.data], 4 * p + 3) = 128

\* whether n is a power of two (1, 2, 4, ...)
IsPow2(n) == n >= 1 /\ Pow2(FloorLog2(n)) = n

\* whether the planes of the spectrum s hold s.height rows of s.width entries
Rectangular(h, s) ==
  /\ Len(s.re) = s.height
  /\ Len(s.im) = s.height
  /\ \A y \in 1..s.height : Len(h[s.re[y]]) = s.width /\ Len(h[s.im[y]]) = s.width

\* C13: spectrum shape.  A spectrum returned by fft2d has as width and height
\* the smallest powers of two that are at least the source's width and height,
\* planes of height rows of width entries, and the source's dimensions as
\* originalWidth and originalHeight; applyFrequencyFilter keeps all four
\* dimensions; the spectrum combined inside createHybridImage has power-of-two
\* width and height, originalWidth <= width and originalHeight <= height.
C13_SpectrumShape ==
  /\ (pc \in {"spectrum", "pair"} /\ call.op = "fft2d") =>
       /\ IsPow2(ret.width) /\ ret.width >= call.source.width
       /\ \A n \in call.source.width..(ret.width - 1) : ~IsPow2(n)
       /\ IsPow2(ret.height) /\ ret.height >= call.source.height
       /\ \A n \in call.source.height..(ret.height - 1) : ~IsPow2(n)
       /\ Rectangular(heap, ret)
       /\ ret.originalWidth = call.source.width
       /\ ret.originalHeight = call.source.height
  /\ (pc = "masked" /\ call.op = "applyFrequencyFilter") =>
       /\ ret.width = fft.width /\ ret.height = fft.height
       /\ ret.originalWidth = fft.originalWidth
       /\ ret.originalHeight = fft.originalHeight
       /\ Rectangular(heap, ret)
  /\ (pc = "called" /\ call.op = "createHybridImage") =>
       LET c == combinedSpectrum(heap, fft, fft2, call.img1Mode, call.img2Mode,
                                 call.radius1, call.radius2)
       IN /\ IsPow2(c.ret.width) /\ IsPow2(c.ret.height)
          /\ c.ret.originalWidth <= c.ret.width
          /\ c.ret.originalHeight <= c.ret.height
          /\ Rectangular(c.heap, c.ret)

\* a hybrid of a padded 3 x 3 image (spectrum 4 x 4) and a smaller second
\* image, whose spectrum is narrower and shorter
C13_Witness ==
  /\ pc = "called"
  /\ call.op = "createHybridImage"
  /\ fft.originalWidth = 3 /\ fft.width = 4
  /\ fft.originalHeight = 3 /\ fft.height = 4
  /\ fft2.width < fft.width
  /\ fft2.height < fft.height
  /\ ret.width = fft2.originalWidth

\* C14: the gradient detectors write the magnitude at every pixel.  Every
\* pixel of the output of sobelFilter, prewittFilter and robertsFilter, the
\* last row and the last column included, has R = G = B, so the output is
\* achromatic whatever the input; where robertsFilter has its four
\* neighbours the sample is the magnitude of the two diagonal differences of
\* the grayscale image.
C14_GradientEveryPixel ==
  (pc = "called" /\ call.op \in {"sobelFilter", "prewittFilter", "robertsFilter"}) =>
    /\ \A p \in 0..(Pixels(img) - 1) :
         /\ At(heap[ret.data], 4 * p) = At(heap[ret.data], 4 * p + 1)
         /\ At(heap[ret.data], 4 * p + 1) = At(heap[ret.data], 4 * p + 2)
    /\ call.op = "robertsFilter" =>
         LET gray == GrayData(heap[img.data])
             w == img.width
         IN \A x \in 0..(w - 2), y \in 0..(img.height - 2) :
              LET gx == At(gray, (y * w + x) * 4) - At(gray, ((y + 1) * w + x + 1) * 4)
                  gy == At(gray, (y * w + x + 1) * 4) - At(gray, ((y + 1) * w + x) * 4)
              IN At(heap[ret.data], (y * w + x) * 4) = MagSample(gx * gx + gy * gy)

\* C15: Sobel and Prewitt use the Euclidean magnitude of the signed responses.
\* With Gx and Gy the signed, unnormalized weighted sums of the 3 x 3
\* edge-clamped grayscale neighbourhood under the horizontal and the vertical
\* kernel, every output pixel has R = G = B = min(255, sqrt(Gx^2 + Gy^2)) as an
\* 8-bit sample; a negative response counts through its square.
C15_EuclideanMagnitude ==
  (pc = "called" /\ call.op \in {"sobelFilter", "prewittFilter"}) =>
    LET gray == GrayData(heap[img.data])
        kx == IF call.op = "sobelFilter" THEN SobelKx ELSE PrewittKx
        ky == IF call.op = "sobelFilter" THEN SobelKy ELSE PrewittKy
    IN \A x \in 0..(img.width - 1), y \in 0..(img.height - 1) :
         LET Gx == ConvSum(gray, img.width, img.height, kx, x, y, 0, 9)
             Gy == ConvSum(gray, img.width, img.height, ky, x, y, 0, 9)
             mag == MagSample(Gx * Gx + Gy * Gy)
         IN Rgb(heap[ret.data], y * img.width + x) = <<mag, mag, mag>>

\* C16: the neighbourhood and the pick of the median filter.  For every size,
\* odd or even, and each of R, G, B, medianFilter gathers exactly size x size
\* edge-clamped neighbour samples around the pixel and outputs the middle one
\* of their ascending sort (the lower-middle one of an even count), which is
\* one of the input samples of the channel.
C16_MedianWindow ==
  (pc = "called" /\ call.op = "medianFilter") =>
    \A x \in 0..(img.width - 1), y \in 0..(img.height - 1), c \in 0..2 :
      LET half == call.size \div 2
          gathered == SortedWindow(heap[img.data], img.width, img.height, half,
                                   x, y, c, (2 * half + 1) * (2 * half + 1))
          out == At(heap[ret.data], (y * img.width + x) * 4 + c)
      IN /\ Len(gathered) = call.size * call.size
         /\ \A k \in 1..(Len(gathered) - 1) : gathered[k] <= gathered[k + 1]
         /\ out = gathered[(Len(gathered) + 1) \div 2]
         /\ \E p \in 0..(Pixels(img) - 1) : At(heap[img.data], 4 * p + c) = out

\* whether pixel p of a w x h image lies on the first or last row or column
OnBorder(p, w, h) ==
  (p % w) \in {0, w - 1} \/ (p \div w) \in {0, h - 1}

\* C17: the border pixels of Canny's output are zero.  For every buffer and
\* kernel size, every pixel of cannyEdgeDetector's output on the first or last
\* row or column has R = G = B = 0 (a buffer narrower or lower than 3 gives an
\* all-zero edge map), and every other R, G, B sample is 0, 128 or 255.
C17_CannyBorderZero ==
  (pc = "called" /\ call.op = "cannyEdgeDetector") =>
    \A p \in 0..(Pixels(img) - 1) :
      IF OnBorder(p, img.width, img.height)
        THEN Rgb(heap[ret.data], p) = <<0, 0, 0>>
        ELSE \A c \in 0..2 : At(heap[ret.data], 4 * p + c) \in {0, 128, 255}

\* whether all pixels of the samples d are equal
FlatBuffer(d) == \A i \in 1..Len(d) : d[i] = d[((i - 1) % 4) + 1]

\* C18: Canny reports no edges on a flat image.  For every buffer whose pixels
\* are all equal and every kernel size, the gradient (gx - 128, gy - 128) is
\* (0, 0) at every pixel and every R, G, B sample of the output is 0.
C18_CannyFlatNoEdges ==
  (pc = "called" /\ call.op = "cannyEdgeDetector" /\ FlatBuffer(heap[img.data])) =>
    LET gx == heap[ret.data - 2]
        gy == heap[ret.data - 1]
    IN \A p \in 0..(Pixels(img) - 1) :
         /\ At(gx, 4 * p) - 128 = 0
         /\ At(gy, 4 * p) - 128 = 0
         /\ Rgb(heap[ret.data], p) = <<0, 0, 0>>

\* the sum of the red samples of the pixels of the samples d
SumSamples(d) == SumSeq([p \in 1..(Len(d) \div 4) |-> d[4 * p - 3]])

\* C19: the zero frequency is centred.  For every buffer whose padded width w
\* and height h are both at least 2, the spectrum of fft2d has at (w/2, h/2)
\* a real part equal to the sum of all grayscale samples of the buffer and an
\* imaginary part 0.
C19_ZeroFrequencyCentred ==
  (/\ pc \in {"spectrum", "pair"}
   /\ call.op = "fft2d"
   /\ ret.width >= 2
   /\ ret.height >= 2)
    => Coefficient(heap, ret, ret.width \div 2, ret.height \div 2)
         = <<Scale * SumSamples(GrayData(heap[call.source.data])), 0>>

\* the spectrum of a zero-padded 3 x 3 buffer that is not flat: the centre
\* holds a positive sum and the corner (0, 0) something else
C19_Witness ==
  /\ pc = "spectrum"
  /\ call.op = "fft2d"
  /\ img.width = 3 /\ img.height = 3
  /\ ret.width = 4 /\ ret.height = 4
  /\ ~FlatBuffer(heap[img.data])
  /\ Coefficient(heap, ret, 2, 2)[1] > 0
  /\ Coefficient(heap, ret, 0, 0) # Coefficient(heap, ret, 2, 2)

\* clamp to [0, 255] of the rounded magnitude sqrt(re^2 + im^2) of a complex
\* sample given in units of 1/Scale: the integer nearest to sqrt(n) / Scale for
\* n = re^2 + im^2, a half rounding up
RoundedMagnitude(re, im) ==
  IF Abs(re) >= 256 * Scale \/ Abs(im) >= 256 * Scale THEN 255
  ELSE LET n == re * re + im * im
           m == ISqrtIn(n, 0, 46340) \div Scale
       IN Clamp255(IF (2 * m + 1) * (2 * m + 1) * Scale * Scale <= 4 * n
                     THEN m + 1 ELSE m)

\* C20: the output of the inverse transform.  For every spectrum handed to
\* ifft2d (directly, or by createHybridImage), the returned buffer has
\* originalWidth x originalHeight pixels and at each (x, y) R = G = B = the
\* clamped rounded magnitude sqrt(re^2 + im^2) of the inverse-transformed
\* sample (which ifft2d leaves in its copies re and im), and alpha = 255; an
\* imaginary sample counts like a real one.
C20_InverseMagnitude ==
  (pc = "called" /\ call.op \in {"ifft2d", "createHybridImage"}) =>
    LET hybrid == call.op = "createHybridImage"
        hh == IF hybrid THEN Min(fft.height, fft2.height) ELSE fft.height
        ow == IF hybrid THEN Min(fft.originalWidth, fft2.originalWidth)
              ELSE fft.originalWidth
        oh == IF hybrid THEN Min(fft.originalHeight, fft2.originalHeight)
              ELSE fft.originalHeight
        re(x, y) == heap[ret.data - 2 * hh + y][x + 1]
        im(x, y) == heap[ret.data - hh + y][x + 1]
    IN /\ ret.width = ow
       /\ ret.height = oh
       /\ Len(heap[ret.data]) = 4 * ow * oh
       /\ \A x \in 0..(ow - 1), y \in 0..(oh - 1) :
            LET m == RoundedMagnitude(re(x, y), im(x, y))
            IN /\ Rgb(heap[ret.data], y * ow + x) = <<m, m, m>>
               /\ At(heap[ret.data], (y * ow + x) * 4 + 3) = 255

\* whether some coordinate of the w x hh spectrum lies at distance exactly
\* radius from (w/2, hh/2)
OnRing(w, hh, radius) ==
  \E x \in 0..(w - 1), y \in 0..(hh - 1) :
    (2 * x - w) * (2 * x - w) + (2 * y - hh) * (2 * y - hh) = 4 * radius * radius

\* the coefficient of the spectrum s at (x, y) after the mask of the given
\* radius and pass type
Masked(h, s, x, y, radius, type) ==
  LET c == Coefficient(h, s, x, y)
      keep == IF type = "low"
                THEN (2 * x - s.width) * (2 * x - s.width)
                       + (2 * y - s.height) * (2 * y - s.height) <= 4 * radius * radius
                ELSE (2 * x - s.width) * (2 * x - s.width)
                       + (2 * y - s.height) * (2 * y - s.height) >= 4 * radius * radius
  IN IF keep THEN c ELSE <<0, 0>>

\* C21: hybrid composition.  For the two spectra, modes and radii of a call,
\* createHybridImage returns a buffer min(originalWidth1, originalWidth2) wide
\* and min(originalHeight1, originalHeight2) high that equals ifft2d of the
\* spectrum whose coefficient at every (x, y) of the common region is the sum
\* of the two coefficients there, each spectrum masked with its own radius and
\* pass type; with two equal spectra, modes low and high and one radius that
\* no coordinate lies at exactly, the result equals ifft2d of that spectrum.
C21_HybridComposition ==
  (pc = "called" /\ call.op = "createHybridImage") =>
    LET w == Min(fft.width, fft2.width)
        hh == Min(fft.height, fft2.height)
        sum(k) == Eval([y \in 1..hh |-> [x \in 1..w |->
                    Masked(heap, fft, x - 1, y - 1, call.radius1, call.img1Mode)[k]
                      + Masked(heap, fft2, x - 1, y - 1, call.radius2, call.img2Mode)[k]]])
        summed == [re |-> Eval([y \in 1..hh |-> Len(heap) + y]),
                   im |-> Eval([y \in 1..hh |-> Len(heap) + hh + y]),
                   width |-> w, height |-> hh,
                   originalWidth |-> Min(fft.originalWidth, fft2.originalWidth),
                   originalHeight |-> Min(fft.originalHeight, fft2.originalHeight)]
        expected == ifft2d(heap \o sum(1) \o sum(2), summed)
        whole == ifft2d(heap, fft)
    IN /\ ret.width = Min(fft.originalWidth, fft2.originalWidth)
       /\ ret.height = Min(fft.originalHeight, fft2.originalHeight)
       /\ heap[ret.data] = expected.heap[expected.ret.data]
       /\ (/\ Planes(heap, fft) = Planes(heap, fft2)
           /\ fft.originalWidth = fft2.originalWidth
           /\ fft.originalHeight = fft2.originalHeight
           /\ call.img1Mode = "low" /\ call.img2Mode = "high"
           /\ call.radius1 = call.radius2
           /\ ~OnRing(fft.width, fft.height, call.radius1))
            => heap[ret.data] = whole.heap[whole.ret.data]

\* a hybrid of an image with itself, low and high at one radius that no
\* coordinate lies at and that splits the nonzero coefficients between the two
\* masks; the result is neither black nor white everywhere
C21_Witness ==
  /\ pc = "called"
  /\ call.op = "createHybridImage"
  /\ Planes(heap, fft) = Planes(heap, fft2)
  /\ call.img1Mode = "low" /\ call.img2Mode = "high"
  /\ call.radius1 = call.radius2
  /\ ~OnRing(fft.width, fft.height, call.radius1)
  /\ \E x \in 0..(fft.width - 1), y \in 0..(fft.height - 1) :
       /\ Coefficient(heap, fft, x, y) # <<0, 0>>
       /\ Masked(heap, fft, x, y, call.radius1, "low") = <<0, 0>>
  /\ \E x \in 0..(fft.width - 1), y \in 0..(fft.height - 1) :
       /\ Coefficient(heap, fft, x, y) # <<0, 0>>
       /\ Masked(heap, fft, x, y, call.radius1, "high") = <<0, 0>>
  /\ \E i \in 1..Len(heap[ret.data]) : heap[ret.data][i] \notin {0, 255}

\* C22: the processing flag covers all pending work.  In FrequencyFilterTab
\* and in HybridImageTab, under every interleaving of load completions, clicks
\* and timer callbacks, whenever a scheduled callback has not yet run the
\* processing flag is true (so Apply Filter / Mix Images is disabled).
C22_ProcessingCoversPending ==
  (ui.tab \in {"frequency", "hybrid"} /\ timers # << >>) => ui.processing

\* C23: no stale result at quiescence in FrequencyFilterTab.  In every state
\* with no load and no callback pending and an image displayed, fftData is
\* the forward transform of that image, fftImage its visualisation, and
\* filteredImage is null or the inverse transform of some mask of that fftData.
C23_NoStaleResult ==
  (/\ ui.tab = "frequency"
   /\ timers = << >>
   /\ \A n \in 1..Len(loads) : loads[n].state # "loading"
   /\ ui.original # NULL)
    => LET f == fft2d(heap, ui.original)
           v == fftToImage(f.heap, f.ret)
       IN /\ ui.fftData # NULL
          /\ ui.fftData.width = f.ret.width
          /\ ui.fftData.height = f.ret.height
          /\ ui.fftData.originalWidth = ui.original.width
          /\ ui.fftData.originalHeight = ui.original.height
          /\ Planes(heap, ui.fftData) = Planes(f.heap, f.ret)
          /\ ui.fftImage # NULL
          /\ ui.fftImage.width = v.ret.width
          /\ heap[ui.fftImage.data] = v.heap[v.ret.data]
          /\ \/ ui.filteredImage = NULL
             \/ \E radius \in Radii, type \in PassTypes :
                  LET m == applyFrequencyFilter(heap, ui.fftData, radius, type)
                      r == ifft2d(m.heap, m.ret)
                  IN /\ ui.filteredImage.width = r.ret.width
                     /\ ui.filteredImage.height = r.ret.height
                     /\ heap[ui.filteredImage.data] = r.heap[r.ret.data]

====
